---- MODULE Spec2Model ----
(***************************************************************************)
(* Model of the ChainSolve evaluation kernel (crates/engine-core):         *)
(* the persistent EngineGraph (graph.rs), the stateless evaluator          *)
(* (eval.rs), the validator (validate.rs), the entry facade (lib.rs) and   *)
(* the part of the op dispatch (ops.rs) that the graph claims exercise.    *)
(*                                                                         *)
(* Abstractions.  An f64 is a record [nan, neg, v]: v is the integer       *)
(* magnitude-with-sign, neg is the sign bit of a zero or of a NaN, so that *)
(* -0.0 and non-canonical NaNs are distinct bit patterns.  A HashMap is a  *)
(* function with a finite domain.  An error message is a tuple of strings. *)
(* The iteration order of a HashMap (the order in which zero-in-degree     *)
(* nodes are seeded into Kahn's queue) is an input chosen by the actions.  *)
(***************************************************************************)
EXTENDS Integers, Sequences, FiniteSets, TLC

\* ------------------------------------------------------------------------
\* Bounds of the model
\* ------------------------------------------------------------------------

\* Number of API calls explored from the initial state.
MaxSteps == 5

\* Number of entry-point calls explored in the facade specification.
MaxCalls == 3

\* Number of consecutive loads explored over the full snapshot universe.
MaxLoads == 2

\* Latest callback invocation at which the progress callback may return Abort.
MaxAbort == 2

\* Calls in a behaviour that applies the stateless evaluator once per input.
MaxRuns == 1

\* ------------------------------------------------------------------------
\* Generic helpers for HashMap-like functions
\* ------------------------------------------------------------------------

EmptyMap == [x \in {} |-> 0]

Put(f, k, v) == [x \in (DOMAIN f) \cup {k} |-> IF x = k THEN v ELSE f[x]]

Del(f, k) == [x \in (DOMAIN f) \ {k} |-> f[x]]

Range(s) == {s[i] : i \in 1..Len(s)}

\* All sequences that enumerate the finite set S without repetition.
Perms(S) == {s \in [1..Cardinality(S) -> S] : \A x \in S : \E i \in DOMAIN s : s[i] = x}

\* ------------------------------------------------------------------------
\* Value algebra (types.rs, ops.rs)
\* ------------------------------------------------------------------------

\* f64 constructors.
F(n) == [nan |-> FALSE, neg |-> FALSE, v |-> n]

NaN == [nan |-> TRUE, neg |-> FALSE, v |-> 0]

NegZero == [nan |-> FALSE, neg |-> TRUE, v |-> 0]

\* a + b on f64 (IEEE-754: NaN is absorbing, (-0)+(-0) = -0, x+(-x) = +0).
FAdd(x, y) ==
    IF x.nan THEN x
    ELSE IF y.nan THEN y
    ELSE IF x.v + y.v = 0 THEN [nan |-> FALSE, neg |-> (x.neg /\ y.neg), v |-> 0]
    ELSE F(x.v + y.v)

\* -x on f64: flips the sign bit, also of zero and of NaN.
FNeg(x) ==
    IF x.nan \/ x.v = 0 THEN [x EXCEPT !.neg = ~x.neg]
    ELSE F(0 - x.v)

\* a * b on f64: NaN is absorbing; a zero product takes the xor of the signs.
FMul(x, y) ==
    IF x.nan THEN x
    ELSE IF y.nan THEN y
    ELSE IF x.v * y.v = 0
         THEN [nan |-> FALSE, v |-> 0,
               neg |-> ((x.neg \/ x.v < 0) # (y.neg \/ y.v < 0))]
    ELSE F(x.v * y.v)

\* f64::max and f64::min: a NaN operand is ignored; which zero comes out of
\* two zeros of opposite sign does not survive canonicalization.
FMax(x, y) ==
    IF x.nan THEN y
    ELSE IF y.nan THEN x
    ELSE IF x.v >= y.v THEN x ELSE y

FMin(x, y) ==
    IF x.nan THEN y
    ELSE IF y.nan THEN x
    ELSE IF x.v <= y.v THEN x ELSE y

\* x != 0.0 on f64 (true for NaN, false for both zeros).
FNonZero(x) == x.nan \/ x.v # 0

Scalar(f) == [kind |-> "scalar", value |-> f]

Error(m) == [kind |-> "error", message |-> m]

Vector(value) == [kind |-> "vector", value |-> value]

Table(columns, rows) == [kind |-> "table", columns |-> columns, rows |-> rows]

canonicalize(v) ==
    IF v.nan THEN NaN
    ELSE IF v.v = 0 THEN F(0)
    ELSE v

\* Variant of canonicalize_value that canonicalizes the scalar slot only.
canonicalize_value_scalar_only(v) ==
    IF v.kind = "scalar" THEN Scalar(canonicalize(v.value))
    ELSE v

canonicalize_value(v) ==
    CASE v.kind = "scalar" -> Scalar(canonicalize(v.value))
      [] v.kind = "vector" -> Vector([i \in 1..Len(v.value) |-> canonicalize(v.value[i])])
      [] v.kind = "table" ->
            Table(v.columns,
                  [i \in 1..Len(v.rows) |->
                      [j \in 1..Len(v.rows[i]) |-> canonicalize(v.rows[i][j])]])
      [] OTHER -> v

\* The closure an op hands to the broadcast helpers, named by its op.
ApplyUnary(f, x) == CASE f = "negate" -> FNeg(x)

ApplyBinary(f, x, y) == CASE f = "add" -> FAdd(x, y)

\* s.iter().map(|x| f(*x)).collect()
MapUnary(f, s) == [i \in 1..Len(s) |-> ApplyUnary(f, s[i])]

\* s.iter().map(|x| f(*a, *x)).collect() and s.iter().map(|x| f(*x, *b)).collect()
MapLeft(f, a, s) == [i \in 1..Len(s) |-> ApplyBinary(f, a, s[i])]

MapRight(f, s, b) == [i \in 1..Len(s) |-> ApplyBinary(f, s[i], b)]

\* va.iter().zip(vb.iter()).map(|(a, b)| f(*a, *b)).collect(): stops at the
\* shorter of the two.
ZipWith(f, va, vb) ==
    [i \in 1..(IF Len(va) <= Len(vb) THEN Len(va) ELSE Len(vb)) |->
        ApplyBinary(f, va[i], vb[i])]

unary_broadcast_port(inputs, port, f) ==
    IF port \in DOMAIN inputs
    THEN LET v == inputs[port]
         IN  CASE v.kind = "scalar" -> Scalar(ApplyUnary(f, v.value))
               [] v.kind = "vector" -> Vector(MapUnary(f, v.value))
               [] v.kind = "table" ->
                     Table(v.columns, [i \in 1..Len(v.rows) |-> MapUnary(f, v.rows[i])])
               [] v.kind = "error" -> Error(v.message)
    ELSE Scalar(ApplyUnary(f, NaN))

unary_broadcast(inputs, f) == unary_broadcast_port(inputs, "a", f)

\* Option<&Value> as its kind, "none" for None.
KindAt(inputs, port) == IF port \in DOMAIN inputs THEN inputs[port].kind ELSE "none"

\* The match (a, b) of binary_broadcast_ports, reached when neither operand
\* is an Error.
BroadcastMatch(inputs, port_a, port_b, f) ==
    LET ka == KindAt(inputs, port_a)
        kb == KindAt(inputs, port_b)
        a == inputs[port_a]
        b == inputs[port_b]
    IN  CASE ka = "scalar" /\ kb = "scalar" -> Scalar(ApplyBinary(f, a.value, b.value))
          [] ka = "none" /\ kb = "none" -> Scalar(ApplyBinary(f, NaN, NaN))
          [] ka = "scalar" /\ kb = "none" -> Scalar(ApplyBinary(f, a.value, NaN))
          [] ka = "none" /\ kb = "scalar" -> Scalar(ApplyBinary(f, NaN, b.value))
          [] ka = "scalar" /\ kb = "vector" ->
                Vector(MapLeft(f, a.value, b.value))
          [] ka = "vector" /\ kb = "scalar" ->
                Vector(MapRight(f, a.value, b.value))
          [] ka = "vector" /\ kb = "vector" ->
                IF Len(a.value) # Len(b.value)
                THEN Error(<<"Vector length mismatch", Len(a.value), Len(b.value)>>)
                ELSE Vector(ZipWith(f, a.value, b.value))
          [] ka = "scalar" /\ kb = "table" ->
                Table(b.columns, [i \in 1..Len(b.rows) |-> MapLeft(f, a.value, b.rows[i])])
          [] ka = "table" /\ kb = "scalar" ->
                Table(a.columns, [i \in 1..Len(a.rows) |-> MapRight(f, a.rows[i], b.value)])
          [] ka = "table" /\ kb = "table" ->
                IF Len(a.columns) # Len(b.columns) \/ Len(a.rows) # Len(b.rows)
                THEN Error(<<"Table shape mismatch", Len(a.rows), Len(a.columns),
                             Len(b.rows), Len(b.columns)>>)
                ELSE Table(a.columns,
                           [i \in 1..Len(a.rows) |-> ZipWith(f, a.rows[i], b.rows[i])])
          [] ka = "vector" /\ kb = "none" ->
                Vector(MapRight(f, a.value, NaN))
          [] ka = "none" /\ kb = "vector" ->
                Vector(MapLeft(f, NaN, b.value))
          [] ka = "table" /\ kb = "none" ->
                Table(a.columns, [i \in 1..Len(a.rows) |-> MapRight(f, a.rows[i], NaN)])
          [] ka = "none" /\ kb = "table" ->
                Table(b.columns, [i \in 1..Len(b.rows) |-> MapLeft(f, NaN, b.rows[i])])
          [] OTHER -> Error(<<"Cannot broadcast", ka, kb>>)

\* Variant of binary_broadcast_ports that looks for an Error on the right
\* operand first.
binary_broadcast_ports_right_first(inputs, port_a, port_b, f) ==
    IF KindAt(inputs, port_b) = "error" THEN Error(inputs[port_b].message)
    ELSE IF KindAt(inputs, port_a) = "error" THEN Error(inputs[port_a].message)
    ELSE BroadcastMatch(inputs, port_a, port_b, f)

binary_broadcast_ports(inputs, port_a, port_b, f) ==
    IF KindAt(inputs, port_a) = "error" THEN Error(inputs[port_a].message)
    ELSE IF KindAt(inputs, port_b) = "error" THEN Error(inputs[port_b].message)
    ELSE BroadcastMatch(inputs, port_a, port_b, f)

binary_broadcast(inputs, f) == binary_broadcast_ports(inputs, "a", "b", f)

\* JSON payloads of node data: a number, a boolean, a string or an array
\* (records with a json tag), or an object (a map from keys to payloads).
JsonNumber(n) == [json |-> "number", n |-> n, b |-> FALSE]

\* The JSON number -0.0, which serde_json reads as the f64 negative zero.
JsonNegZero == [json |-> "number", n |-> 0, b |-> FALSE, neg |-> TRUE]

JsonBool(b) == [json |-> "bool", n |-> 0, b |-> b]

JsonString == [json |-> "string", n |-> 0, b |-> FALSE]

\* A JSON string with its text, and a JSON array with its items.
JsonStr(s) == [json |-> "string", n |-> 0, b |-> FALSE, s |-> s]

JsonArray(items) == [json |-> "array", n |-> 0, b |-> FALSE, items |-> items]

\* serde_json::Value::as_f64 and as_bool (an Option: <<>> is None).
as_f64(v) ==
    IF "json" \in DOMAIN v /\ v.json = "number"
    THEN <<IF "neg" \in DOMAIN v THEN NegZero ELSE F(v.n)>>
    ELSE <<>>

as_bool(v) == IF v.json = "bool" THEN <<v.b>> ELSE <<>>

\* serde_json::Value::as_str and as_array
as_str(v) ==
    IF "json" \in DOMAIN v /\ v.json = "string"
    THEN <<IF "s" \in DOMAIN v THEN v.s ELSE "">>
    ELSE <<>>

as_array(v) == IF "json" \in DOMAIN v /\ v.json = "array" THEN <<v.items>> ELSE <<>>

\* serde_json::Value::as_object / as_object_mut
as_object(v) == IF "json" \in DOMAIN v THEN <<>> ELSE <<v>>

\* serde_json::Value::get(key): None unless v is an object that has the key.
JsonGet(v, key) == IF as_object(v) # <<>> /\ key \in DOMAIN v THEN <<v[key]>> ELSE <<>>

\* data.get(key).and_then(|v| v.as_object()), with None read as no entries.
ObjectAt(data, key) ==
    IF key \in DOMAIN data /\ as_object(data[key]) # <<>> THEN data[key] ELSE EmptyMap

\* data.get("value").and_then(as_f64).unwrap_or(0.0)
DataValue(data) == IF "value" \in DOMAIN data THEN F(data["value"]) ELSE F(0)

\* inputs.get(port).and_then(as_scalar).unwrap_or(NAN)
scalar_or_nan(inputs, port) ==
    IF port \in DOMAIN inputs /\ inputs[port].kind = "scalar" THEN inputs[port].value
    ELSE NaN

\* require_vector / require_table: Ok(v) is <<v>>; an Err is the error Value.
require_vector(inputs, port, name) ==
    IF port \in DOMAIN inputs
    THEN IF inputs[port].kind = "vector" THEN [ok |-> <<inputs[port].value>>]
         ELSE [ok |-> <<>>, err |-> Error(<<name, "expected vector">>)]
    ELSE [ok |-> <<>>, err |-> Error(<<name, "no input">>)]

require_table(inputs, port, name) ==
    IF port \in DOMAIN inputs
    THEN IF inputs[port].kind = "table" THEN [ok |-> <<inputs[port]>>]
         ELSE [ok |-> <<>>, err |-> Error(<<name, "expected table">>)]
    ELSE [ok |-> <<>>, err |-> Error(<<name, "no input">>)]

\* arr.iter().filter_map(|v| v.as_f64()).collect()
RECURSIVE NumbersOf(_)
NumbersOf(arr) ==
    IF arr = <<>> THEN <<>>
    ELSE as_f64(Head(arr)) \o NumbersOf(Tail(arr))

\* arr.iter().filter_map(|v| v.as_str().map(String::from)).collect()
RECURSIVE StringsOf(_)
StringsOf(arr) ==
    IF arr = <<>> THEN <<>>
    ELSE as_str(Head(arr)) \o StringsOf(Tail(arr))

\* arr.iter().filter_map(|row| row.as_array().map(|r| r.iter().map(|v|
\* v.as_f64().unwrap_or(NAN)).collect())).collect()
RECURSIVE RowsOf(_)
RowsOf(arr) ==
    IF arr = <<>> THEN <<>>
    ELSE LET r == as_array(Head(arr))
         IN  (IF r = <<>> THEN <<>>
              ELSE <<[i \in 1..Len(r[1]) |->
                         IF as_f64(r[1][i]) = <<>> THEN NaN ELSE as_f64(r[1][i])[1]]>>)
             \o RowsOf(Tail(arr))

read_table_from_data(data, require) ==
    IF "tableData" \in DOMAIN data
    THEN LET td == data["tableData"]
             c == JsonGet(td, "columns")
             r == JsonGet(td, "rows")
         IN  Table(IF c # <<>> /\ as_array(c[1]) # <<>> THEN StringsOf(as_array(c[1])[1])
                   ELSE <<"A">>,
                   IF r # <<>> /\ as_array(r[1]) # <<>> THEN RowsOf(as_array(r[1])[1])
                   ELSE <<>>)
    ELSE IF require THEN Error(<<"No CSV loaded">>)
    ELSE Table(<<"A">>, <<>>)

\* x.floor() as i64 on the integer-valued floats of the model: the cast
\* sends NaN to 0.
FloorI64(x) == IF x.nan THEN 0 ELSE x.v

\* a > b on f64: false when either side is NaN.
FGt(x, y) == ~x.nan /\ ~y.nan /\ x.v > y.v

\* row.get(ci).copied().unwrap_or(dflt), ci counted from 0.
CellOr(row, ci, dflt) == IF ci + 1 \in DOMAIN row THEN row[ci + 1] ELSE dflt

\* rows.sort_by(key at column ci, partial_cmp, unwrap_or(Equal)): a stable
\* sort, written as insertion of each row after the rows not greater.
RECURSIVE InsertRow(_, _, _)
InsertRow(sorted, row, ci) ==
    IF sorted = <<>> THEN <<row>>
    ELSE IF FGt(CellOr(sorted[Len(sorted)], ci, F(0)), CellOr(row, ci, F(0)))
         THEN Append(InsertRow(SubSeq(sorted, 1, Len(sorted) - 1), row, ci),
                     sorted[Len(sorted)])
         ELSE Append(sorted, row)

RECURSIVE SortRows(_, _)
SortRows(rows, ci) ==
    IF rows = <<>> THEN <<>>
    ELSE InsertRow(SortRows(SubSeq(rows, 1, Len(rows) - 1), ci), rows[Len(rows)], ci)

\* vec![f64::NAN; n]
NaNs(n) == [i \in 1..n |-> NaN]

\* The "Col{n}" name of an added column.
ColName(n) == <<"Col", n>>

tableAddColumn(t, vec) ==
    LET max_len == IF Len(t.rows) >= Len(vec) THEN Len(t.rows) ELSE Len(vec)
    IN  Table(Append(t.columns, ColName(Len(t.columns) + 1)),
              [i \in 1..max_len |->
                  Append(IF i <= Len(t.rows) THEN t.rows[i] ELSE NaNs(Len(t.columns)),
                         IF i <= Len(vec) THEN vec[i] ELSE NaN)])

tableJoin(ta, tb) ==
    LET max_len == IF Len(ta.rows) >= Len(tb.rows) THEN Len(ta.rows) ELSE Len(tb.rows)
    IN  Table(ta.columns \o tb.columns,
              [i \in 1..max_len |->
                  (IF i <= Len(ta.rows) THEN ta.rows[i] ELSE NaNs(Len(ta.columns)))
                  \o (IF i <= Len(tb.rows) THEN tb.rows[i] ELSE NaNs(Len(tb.columns)))])

vectorInput(data, datasets) ==
    LET ref == IF "datasetRef" \in DOMAIN data THEN as_str(data["datasetRef"]) ELSE <<>>
    IN  IF ref # <<>> /\ ref[1] \in DOMAIN datasets THEN Vector(datasets[ref[1]])
        ELSE IF "vectorData" \in DOMAIN data /\ as_array(data["vectorData"]) # <<>>
        THEN Vector(NumbersOf(as_array(data["vectorData"])[1]))
        ELSE Vector(<<>>)

tableFilter(inputs) ==
    LET t == require_table(inputs, "table", "Filter")
        ci == FloorI64(scalar_or_nan(inputs, "col"))
        threshold == scalar_or_nan(inputs, "threshold")
    IN  IF t.ok = <<>> THEN t.err
        ELSE IF ci < 0 \/ ci >= Len(t.ok[1].columns)
        THEN Error(<<"Filter: column index out of range">>)
        ELSE IF threshold.nan THEN Error(<<"Filter: expected threshold">>)
        ELSE Table(t.ok[1].columns,
                   SelectSeq(t.ok[1].rows, LAMBDA row : FGt(CellOr(row, ci, NaN), threshold)))

tableSort(inputs) ==
    LET t == require_table(inputs, "table", "Sort")
        ci == FloorI64(scalar_or_nan(inputs, "col"))
    IN  IF t.ok = <<>> THEN t.err
        ELSE IF ci < 0 \/ ci >= Len(t.ok[1].columns)
        THEN Error(<<"Sort: column index out of range">>)
        ELSE Table(t.ok[1].columns, SortRows(t.ok[1].rows, ci))

evaluate_node_inner(block_type, inputs, data, datasets) ==
    CASE block_type \in {"number", "slider"} -> Scalar(DataValue(data))
      [] block_type = "vectorInput" -> vectorInput(data, datasets)
      [] block_type = "tableInput" -> read_table_from_data(data, FALSE)
      [] block_type = "csvImport" -> read_table_from_data(data, TRUE)
      [] block_type = "tableFilter" -> tableFilter(inputs)
      [] block_type = "tableSort" -> tableSort(inputs)
      [] block_type = "tableAddColumn" ->
            LET t == require_table(inputs, "table", "AddColumn")
                vec == require_vector(inputs, "vec", "AddColumn")
            IN  IF t.ok = <<>> THEN t.err
                ELSE IF vec.ok = <<>> THEN vec.err
                ELSE tableAddColumn(t.ok[1], vec.ok[1])
      [] block_type = "tableJoin" ->
            LET a == require_table(inputs, "a", "Join")
                b == require_table(inputs, "b", "Join")
            IN  IF a.ok = <<>> THEN a.err
                ELSE IF b.ok = <<>> THEN b.err
                ELSE tableJoin(a.ok[1], b.ok[1])
      [] block_type = "add" -> binary_broadcast(inputs, "add")
      [] block_type = "clamp" ->
            Scalar(FMin(FMax(scalar_or_nan(inputs, "val"), scalar_or_nan(inputs, "min")),
                        scalar_or_nan(inputs, "max")))
      [] block_type = "ifthenelse" ->
            Scalar(IF FNonZero(scalar_or_nan(inputs, "cond"))
                   THEN scalar_or_nan(inputs, "then")
                   ELSE scalar_or_nan(inputs, "else"))
      [] block_type = "eng.mechanics.potential_energy" ->
            Scalar(FMul(FMul(scalar_or_nan(inputs, "m"), scalar_or_nan(inputs, "g")),
                        scalar_or_nan(inputs, "h")))
      [] block_type = "negate" -> unary_broadcast(inputs, "negate")
      [] block_type = "display" ->
            IF "value" \in DOMAIN inputs THEN inputs["value"] ELSE Scalar(NaN)
      [] OTHER -> Error(<<"Unknown block type", block_type>>)

evaluate_node_with_datasets(block_type, inputs, data, datasets) ==
    canonicalize_value(evaluate_node_inner(block_type, inputs, data, datasets))

evaluate_node(block_type, inputs, data) ==
    evaluate_node_with_datasets(block_type, inputs, data, EmptyMap)

\* Bit-level equality of two Values (to_bits on every f64).
values_equal(a, b) ==
    IF a.kind = "scalar" /\ b.kind = "scalar" THEN a.value = b.value
    ELSE IF a.kind = "vector" /\ b.kind = "vector" THEN a.value = b.value
    ELSE IF a.kind = "table" /\ b.kind = "table"
         THEN a.columns = b.columns /\ a.rows = b.rows
    ELSE IF a.kind = "error" /\ b.kind = "error" THEN a.message = b.message
    ELSE FALSE

\* ------------------------------------------------------------------------
\* Persistent graph (graph.rs): helpers on a graph record g with the fields
\* nodes, edges, out_adj, in_adj, topo_order, values, dirty, topo_dirty,
\* datasets of struct EngineGraph.
\* ------------------------------------------------------------------------

\* EngineGraph::new
NewGraph ==
    [nodes |-> EmptyMap, edges |-> EmptyMap, out_adj |-> EmptyMap,
     in_adj |-> EmptyMap, topo_order |-> <<>>, values |-> EmptyMap,
     dirty |-> {}, topo_dirty |-> TRUE, datasets |-> EmptyMap]

\* HashMap::entry(k).or_default() on an adjacency map.
EntryOrDefault(adj, k) == IF k \in DOMAIN adj THEN adj ELSE Put(adj, k, <<>>)

\* Targets of the out-edges of id, in adjacency order (empty when no row).
OutTargets(out_adj, id) ==
    IF id \in DOMAIN out_adj
    THEN [i \in 1..Len(out_adj[id]) |-> out_adj[id][i].target]
    ELSE <<>>

\* mark_dirty: worklist BFS; only a newly inserted id propagates.
RECURSIVE MarkDirtyQueue(_, _, _)
MarkDirtyQueue(dirty, queue, out_adj) ==
    IF queue = <<>> THEN dirty
    ELSE LET id == Head(queue)
         IN  IF id \notin dirty
             THEN MarkDirtyQueue(dirty \cup {id}, Tail(queue) \o OutTargets(out_adj, id), out_adj)
             ELSE MarkDirtyQueue(dirty, Tail(queue), out_adj)

\* A marking that inserts the node without walking its out-edges.
mark_dirty_node_only(g, node_id) ==
    [g EXCEPT !.dirty = @ \cup {node_id}]

mark_dirty(g, node_id) ==
    [g EXCEPT !.dirty = MarkDirtyQueue(g.dirty, <<node_id>>, g.out_adj)]

\* add_edge_internal: push onto out_adj[source] and in_adj[target].
add_edge_internal(g, edge) ==
    LET oa == EntryOrDefault(g.out_adj, edge.source)
        ia == EntryOrDefault(g.in_adj, edge.target)
    IN  [g EXCEPT
           !.out_adj = [oa EXCEPT ![edge.source] =
                           Append(@, [id |-> edge.id, target |-> edge.target,
                                      target_handle |-> edge.target_handle])],
           !.in_adj = [ia EXCEPT ![edge.target] =
                           Append(@, [id |-> edge.id, source |-> edge.source,
                                      source_handle |-> edge.source_handle,
                                      target_handle |-> edge.target_handle])]]

\* remove_edge_internal: retain the adjacency entries of other edge ids.
remove_edge_internal(g, edge_id) ==
    IF edge_id \in DOMAIN g.edges
    THEN LET edge == g.edges[edge_id]
             Keep(x) == x.id # edge_id
             oa == IF edge.source \in DOMAIN g.out_adj
                   THEN [g.out_adj EXCEPT ![edge.source] = SelectSeq(@, Keep)]
                   ELSE g.out_adj
             ia == IF edge.target \in DOMAIN g.in_adj
                   THEN [g.in_adj EXCEPT ![edge.target] = SelectSeq(@, Keep)]
                   ELSE g.in_adj
         IN  [g EXCEPT !.out_adj = oa, !.in_adj = ia]
    ELSE g

\* load_snapshot: the loop over snapshot.nodes.
RECURSIVE LoadNodes(_, _)
LoadNodes(g, ns) ==
    IF ns = <<>> THEN g
    ELSE LET node == Head(ns)
         IN  LoadNodes([g EXCEPT !.dirty = @ \cup {node.id},
                                 !.out_adj = EntryOrDefault(@, node.id),
                                 !.in_adj = EntryOrDefault(@, node.id),
                                 !.nodes = Put(@, node.id, node)],
                       Tail(ns))

\* load_snapshot: the loop over snapshot.edges.
RECURSIVE LoadEdges(_, _)
LoadEdges(g, es) ==
    IF es = <<>> THEN g
    ELSE LET edge == Head(es)
             g1 == add_edge_internal(g, edge)
         IN  LoadEdges([g1 EXCEPT !.edges = Put(@, edge.id, edge)], Tail(es))

\* Variant of load_snapshot that forgets to clear edges and the adjacency
\* maps: the wiring of the previous snapshot survives the load.
load_snapshot_keeps_edges(g, snapshot) ==
    LET g0 == [g EXCEPT !.nodes = EmptyMap, !.values = EmptyMap, !.dirty = {}]
        g1 == LoadEdges(LoadNodes(g0, snapshot.nodes), snapshot.edges)
    IN  [g1 EXCEPT !.topo_dirty = TRUE]

\* Variant of load_snapshot that also empties the dataset registry.
load_snapshot_clears_datasets(g, snapshot) ==
    LET g0 == [g EXCEPT !.nodes = EmptyMap, !.edges = EmptyMap,
                        !.out_adj = EmptyMap, !.in_adj = EmptyMap,
                        !.values = EmptyMap, !.dirty = {}, !.datasets = EmptyMap]
        g1 == LoadEdges(LoadNodes(g0, snapshot.nodes), snapshot.edges)
    IN  [g1 EXCEPT !.topo_dirty = TRUE]

\* Variant of load_snapshot that keeps the cached values of the previous
\* snapshot.
load_snapshot_keeps_values(g, snapshot) ==
    LET g0 == [g EXCEPT !.nodes = EmptyMap, !.edges = EmptyMap,
                        !.out_adj = EmptyMap, !.in_adj = EmptyMap, !.dirty = {}]
        g1 == LoadEdges(LoadNodes(g0, snapshot.nodes), snapshot.edges)
    IN  [g1 EXCEPT !.topo_dirty = TRUE]

\* load_snapshot: full reset; topo_order and datasets are not cleared.
load_snapshot(g, snapshot) ==
    LET g0 == [g EXCEPT !.nodes = EmptyMap, !.edges = EmptyMap,
                        !.out_adj = EmptyMap, !.in_adj = EmptyMap,
                        !.values = EmptyMap, !.dirty = {}]
        g1 == LoadEdges(LoadNodes(g0, snapshot.nodes), snapshot.edges)
    IN  [g1 EXCEPT !.topo_dirty = TRUE]

\* RemoveNode: cascade-remove the edges collected from self.edges.
RECURSIVE RemoveEdges(_, _)
RemoveEdges(g, eids) ==
    IF eids = {} THEN g
    ELSE LET eid == CHOOSE e \in eids : TRUE
             g1 == remove_edge_internal(g, eid)
         IN  RemoveEdges([g1 EXCEPT !.edges = Del(@, eid)], eids \ {eid})

\* The ids of the edges that touch node_id, collected from self.edges.
TouchingEdges(g, node_id) ==
    {eid \in DOMAIN g.edges :
        g.edges[eid].source = node_id \/ g.edges[eid].target = node_id}

\* Variant of the RemoveNode arm that leaves the cache entry and the dirty
\* mark of the removed node in place.
remove_node_keeps_cache(g, node_id) ==
    [RemoveEdges(g, TouchingEdges(g, node_id)) EXCEPT
        !.nodes = Del(@, node_id),
        !.out_adj = Del(@, node_id),
        !.in_adj = Del(@, node_id),
        !.topo_dirty = TRUE]

\* PatchOp::RemoveNode: cascade-remove the edges touching the node, then drop
\* its slots in nodes, out_adj, in_adj, values and dirty.
remove_node(g, node_id) ==
    [RemoveEdges(g, TouchingEdges(g, node_id)) EXCEPT
        !.nodes = Del(@, node_id),
        !.out_adj = Del(@, node_id),
        !.in_adj = Del(@, node_id),
        !.values = Del(@, node_id),
        !.dirty = @ \ {node_id},
        !.topo_dirty = TRUE]

\* One arm of the match in apply_patch.
ApplyOp(g, op) ==
    CASE op.op = "addNode" ->
            LET id == op.node.id
                g1 == [g EXCEPT !.out_adj = EntryOrDefault(@, id),
                                !.in_adj = EntryOrDefault(@, id),
                                !.nodes = Put(@, id, op.node)]
            IN  [mark_dirty(g1, id) EXCEPT !.topo_dirty = TRUE]
      [] op.op = "removeNode" -> remove_node(g, op.nodeId)
      [] op.op = "updateNodeData" ->
            IF op.nodeId \in DOMAIN g.nodes
            THEN mark_dirty([g EXCEPT !.nodes[op.nodeId].data = op.data], op.nodeId)
            ELSE g
      [] op.op = "addEdge" ->
            LET g1 == add_edge_internal(g, op.edge)
                g2 == [g1 EXCEPT !.edges = Put(@, op.edge.id, op.edge)]
            IN  [mark_dirty(g2, op.edge.target) EXCEPT !.topo_dirty = TRUE]
      [] op.op = "removeEdge" ->
            IF op.edgeId \in DOMAIN g.edges
            THEN LET target_id == g.edges[op.edgeId].target
                     g1 == remove_edge_internal(g, op.edgeId)
                     g2 == [g1 EXCEPT !.edges = Del(@, op.edgeId)]
                 IN  [mark_dirty(g2, target_id) EXCEPT !.topo_dirty = TRUE]
            ELSE g

\* apply_patch: the ops in order.
RECURSIVE apply_patch(_, _)
apply_patch(g, ops) ==
    IF ops = <<>> THEN g
    ELSE apply_patch(ApplyOp(g, Head(ops)), Tail(ops))

\* ------------------------------------------------------------------------
\* Topological order of the persistent graph (graph.rs, rebuild_topo)
\* ------------------------------------------------------------------------

\* in_degree: 0 for every node, +1 per edge of self.edges on its target
\* (a target that is not a node gets an entry through or_insert).
InDegree(g) ==
    [id \in (DOMAIN g.nodes) \cup {g.edges[e].target : e \in DOMAIN g.edges} |->
        Cardinality({e \in DOMAIN g.edges : g.edges[e].target = id})]

\* The orders in which the first loop can seed the queue (HashMap iteration).
SeedOrders(in_degree) == Perms({id \in DOMAIN in_degree : in_degree[id] = 0})

\* The for loop over the out-neighbours of the popped id: decrement, and
\* push the target when its remaining degree reaches 0.  A target that is
\* not a key of remaining is skipped.  (usize: a decrement at 0 is outside
\* the cases reached while adjacency and self.edges agree.)
RECURSIVE KahnNeighbors(_, _)
KahnNeighbors(st, targets) ==
    IF targets = <<>> THEN st
    ELSE LET t == Head(targets)
         IN  IF t \in DOMAIN st.remaining
             THEN LET deg == st.remaining[t] - 1
                      st1 == [st EXCEPT !.remaining[t] = deg,
                                        !.queue = IF deg = 0 THEN Append(@, t) ELSE @]
                  IN  KahnNeighbors(st1, Tail(targets))
             ELSE KahnNeighbors(st, Tail(targets))

\* while let Some(id) = queue.pop_front()
RECURSIVE KahnLoop(_, _)
KahnLoop(st, out_adj) ==
    IF st.queue = <<>> THEN st
    ELSE LET id == Head(st.queue)
             st1 == [st EXCEPT !.queue = Tail(@), !.order = Append(@, id)]
         IN  KahnLoop(KahnNeighbors(st1, OutTargets(out_adj, id)), out_adj)

\* A fixed enumeration of a finite set (the order of a diagnostics list that
\* the code fills by iterating a HashMap carries no meaning).
RECURSIVE SetToSeq(_)
SetToSeq(S) ==
    IF S = {} THEN <<>>
    ELSE LET x == CHOOSE y \in S : TRUE IN <<x>> \o SetToSeq(S \ {x})

\* Diagnostic: node_id is <<>> for None and <<id>> for Some(id).
CycleDiagnostic(id) ==
    [node_id |-> <<id>>, level |-> "error", code |-> "CYCLE_DETECTED",
     message |-> <<"Node", id, "is part of a cycle">>]

\* rebuild_topo: returns the new topo_order and the diagnostics pushed.
rebuild_topo(g, seed) ==
    LET in_degree == InDegree(g)
        st == KahnLoop([queue |-> seed, order |-> <<>>, remaining |-> in_degree],
                       g.out_adj)
        order == st.order
        diags == IF Len(order) < Cardinality(DOMAIN g.nodes)
                 THEN LET missing == {id \in DOMAIN g.nodes : id \notin Range(order)}
                          ids == SetToSeq(missing)
                      IN  [i \in 1..Len(ids) |-> CycleDiagnostic(ids[i])]
                 ELSE <<>>
    IN  [topo_order |-> order, diagnostics |-> diags]

\* ------------------------------------------------------------------------
\* Incremental evaluation (graph.rs, evaluate_dirty_with_callback)
\* ------------------------------------------------------------------------

\* prune_downstream over a [dirty, pruned] pair; pruned records the ids that
\* line 422 actually took out of the dirty set.
RECURSIVE PruneNeighbors(_, _, _, _)
PruneNeighbors(st, targets, out_adj, in_adj) ==
    IF targets = <<>> THEN st
    ELSE LET t == Head(targets)
             all_parents_clean ==
                 IF t \in DOMAIN in_adj
                 THEN \A i \in 1..Len(in_adj[t]) : in_adj[t][i].source \notin st.dirty
                 ELSE TRUE
         IN  IF all_parents_clean
             THEN LET st1 == [dirty |-> st.dirty \ {t},
                              pruned |-> st.pruned \cup ({t} \cap st.dirty)]
                      st2 == PruneNeighbors(st1, OutTargets(out_adj, t), out_adj, in_adj)
                  IN  PruneNeighbors(st2, Tail(targets), out_adj, in_adj)
             ELSE PruneNeighbors(st, Tail(targets), out_adj, in_adj)

\* A pruning that takes the direct successors out of dirty whatever their
\* other parents are, and goes no further.
prune_downstream_direct_only(st, node_id, out_adj, in_adj) ==
    [dirty |-> st.dirty \ Range(OutTargets(out_adj, node_id)),
     pruned |-> st.pruned \cup (Range(OutTargets(out_adj, node_id)) \cap st.dirty)]

prune_downstream(st, node_id, out_adj, in_adj) ==
    PruneNeighbors(st, OutTargets(out_adj, node_id), out_adj, in_adj)

\* Variant of the gathering loop in which the first edge into a port that
\* brings a value keeps the port.
RECURSIVE GatherInputsFirstWins(_, _, _)
GatherInputsFirstWins(inputs, in_edges, vals) ==
    IF in_edges = <<>> THEN inputs
    ELSE LET e == Head(in_edges)
         IN  IF e.source \in DOMAIN vals /\ e.target_handle \notin DOMAIN inputs
             THEN GatherInputsFirstWins(Put(inputs, e.target_handle, vals[e.source]),
                                        Tail(in_edges), vals)
             ELSE GatherInputsFirstWins(inputs, Tail(in_edges), vals)

\* Gather input values from the in-edges, in adjacency order: a later edge
\* into the same port overwrites an earlier one.
RECURSIVE GatherInputs(_, _, _)
GatherInputs(inputs, in_edges, vals) ==
    IF in_edges = <<>> THEN inputs
    ELSE LET e == Head(in_edges)
         IN  IF e.source \in DOMAIN vals
             THEN GatherInputs(Put(inputs, e.target_handle, vals[e.source]),
                               Tail(in_edges), vals)
             ELSE GatherInputs(inputs, Tail(in_edges), vals)

\* Variant of the manual-value step in which a numeric manual value always
\* replaces the gathered one, whatever portOverrides says.
ApplyManualsAlways(inputs, data) ==
    LET manuals == ObjectAt(data, "manualValues")
        used == {p \in DOMAIN manuals : as_f64(manuals[p]) # <<>>}
    IN  [p \in (DOMAIN inputs) \cup used |->
            IF p \in used THEN Scalar(as_f64(manuals[p])[1]) ELSE inputs[p]]

\* Apply portOverrides / manualValues of the node data to the gathered inputs.
ApplyManuals(inputs, data) ==
    LET manuals == ObjectAt(data, "manualValues")
        overrides == ObjectAt(data, "portOverrides")
        is_overridden(p) == p \in DOMAIN overrides /\ as_bool(overrides[p]) = <<TRUE>>
        used == {p \in DOMAIN manuals :
                    /\ as_f64(manuals[p]) # <<>>
                    /\ (p \notin DOMAIN inputs \/ is_overridden(p))}
    IN  [p \in (DOMAIN inputs) \cup used |->
            IF p \in used THEN Scalar(as_f64(manuals[p])[1]) ELSE inputs[p]]

\* The inputs the walk resolves for node_id against the cache vals.
NodeInputs(g, node_id, vals) ==
    ApplyManuals(GatherInputs(EmptyMap,
                              IF node_id \in DOMAIN g.in_adj THEN g.in_adj[node_id] ELSE <<>>,
                              vals),
                 g.nodes[node_id].data)

\* Diagnostics pushed for one evaluated node.
NodeDiagnostics(node_id, result) ==
    IF result.kind = "error" /\ result.message[1] = "Unknown block type"
    THEN <<[node_id |-> <<node_id>>, level |-> "warning", code |-> "UNKNOWN_BLOCK",
            message |-> result.message]>>
    ELSE <<>>

\* EvalOptions::default()
DefaultOptions == [trace |-> FALSE, max_trace_nodes |-> <<>>, time_budget_ms |-> 0]

\* The trace after one evaluated node: an entry (node id and op id; the
\* summaries of inputs and output are left out) is pushed when tracing is on
\* and the trace is shorter than max_trace_nodes (None: no limit).
\* Variant of CollectTrace whose limit test lets one entry past the cap.
CollectTraceUpToCap(opts, trace, node_id, block_type) ==
    LET within_limit == IF opts.max_trace_nodes = <<>> THEN TRUE
                        ELSE Len(trace) <= opts.max_trace_nodes[1]
    IN  IF opts.trace /\ within_limit
        THEN Append(trace, [node_id |-> node_id, op_id |-> block_type])
        ELSE trace

CollectTrace(opts, trace, node_id, block_type) ==
    LET within_limit == IF opts.max_trace_nodes = <<>> THEN TRUE
                        ELSE Len(trace) < opts.max_trace_nodes[1]
    IN  IF opts.trace /\ within_limit
        THEN Append(trace, [node_id |-> node_id, op_id |-> block_type])
        ELSE trace

\* One invocation of the progress callback, as the callee sees it: the two
\* arguments, and the engine at that moment (the node just evaluated, the
\* cache and the dirty set).
on_progress(evaluated_count, dirty_count, node_id, vals, dirty_now) ==
    [evaluated_count |-> evaluated_count, dirty_count |-> dirty_count,
     node_id |-> node_id,
     cached |-> IF node_id \in DOMAIN vals THEN <<vals[node_id]>> ELSE <<>>,
     dirty |-> dirty_now]

\* What one iteration does once the node's value is computed: compare with
\* the cached value, store it, prune, trace, call the progress callback.
\* Variant that reports a node in changed_values only when its value differs
\* from the cached one.
StoreResultReportsChangesOnly(g, w, node_id, result, abort_at) ==
    LET evaluated_count == w.evaluated_count + 1
        value_changed == IF node_id \in DOMAIN w.values
                         THEN ~values_equal(w.values[node_id], result)
                         ELSE TRUE
        dp0 == [dirty |-> w.dirty \ {node_id}, pruned |-> w.pruned]
        dp == IF ~value_changed
              THEN prune_downstream(dp0, node_id, g.out_adj, g.in_adj)
              ELSE dp0
    IN  [w EXCEPT !.values = Put(@, node_id, result),
                  !.changed_values = IF value_changed THEN Put(@, node_id, result) ELSE @,
                  !.evaluated_count = evaluated_count,
                  !.evaluated = Append(@, node_id),
                  !.diagnostics = @ \o NodeDiagnostics(node_id, result),
                  !.dirty = dp.dirty,
                  !.pruned = dp.pruned,
                  !.trace = CollectTrace(w.opts, @, node_id, g.nodes[node_id].block_type),
                  !.progress = Append(@, on_progress(evaluated_count, w.dirty_count, node_id,
                                                     Put(w.values, node_id, result), dp.dirty)),
                  !.partial = (evaluated_count = abort_at)]

\* Variant that consults the callback before the value is stored and before
\* the downstream is pruned.
StoreResultCallbackFirst(g, w, node_id, result, abort_at) ==
    LET evaluated_count == w.evaluated_count + 1
        value_changed == IF node_id \in DOMAIN w.values
                         THEN ~values_equal(w.values[node_id], result)
                         ELSE TRUE
        dp0 == [dirty |-> w.dirty \ {node_id}, pruned |-> w.pruned]
        dp == IF ~value_changed
              THEN prune_downstream(dp0, node_id, g.out_adj, g.in_adj)
              ELSE dp0
    IN  [w EXCEPT !.values = Put(@, node_id, result),
                  !.changed_values = Put(@, node_id, result),
                  !.evaluated_count = evaluated_count,
                  !.evaluated = Append(@, node_id),
                  !.diagnostics = @ \o NodeDiagnostics(node_id, result),
                  !.dirty = dp.dirty,
                  !.pruned = dp.pruned,
                  !.trace = CollectTrace(w.opts, @, node_id, g.nodes[node_id].block_type),
                  !.progress = Append(@, on_progress(evaluated_count, w.dirty_count, node_id,
                                                     w.values, dp0.dirty)),
                  !.partial = (evaluated_count = abort_at)]

StoreResult(g, w, node_id, result, abort_at) ==
    LET evaluated_count == w.evaluated_count + 1
        value_changed == IF node_id \in DOMAIN w.values
                         THEN ~values_equal(w.values[node_id], result)
                         ELSE TRUE
        dp0 == [dirty |-> w.dirty \ {node_id}, pruned |-> w.pruned]
        dp == IF ~value_changed
              THEN prune_downstream(dp0, node_id, g.out_adj, g.in_adj)
              ELSE dp0
    IN  [w EXCEPT !.values = Put(@, node_id, result),
                  !.changed_values = Put(@, node_id, result),
                  !.evaluated_count = evaluated_count,
                  !.evaluated = Append(@, node_id),
                  !.diagnostics = @ \o NodeDiagnostics(node_id, result),
                  !.dirty = dp.dirty,
                  !.pruned = dp.pruned,
                  !.trace = CollectTrace(w.opts, @, node_id, g.nodes[node_id].block_type),
                  !.progress = Append(@, on_progress(evaluated_count, w.dirty_count, node_id,
                                                     Put(w.values, node_id, result), dp.dirty)),
                  !.partial = (evaluated_count = abort_at)]

\* The value the walk computes for node_id from the cache of w.
NodeResult(g, w, node_id) ==
    evaluate_node_with_datasets(g.nodes[node_id].block_type,
                                NodeInputs(g, node_id, w.values),
                                g.nodes[node_id].data, g.datasets)

\* Variant of the iteration that reports a node in changed_values only when
\* its value differs from the cached one.
EvalStepReportsChangesOnly(g, w, node_id, abort_at) ==
    StoreResultReportsChangesOnly(g, w, node_id, NodeResult(g, w, node_id), abort_at)

\* Variant of the iteration that consults the callback before the value is
\* stored and before the downstream is pruned.
EvalStepCallbackFirst(g, w, node_id, abort_at) ==
    StoreResultCallbackFirst(g, w, node_id, NodeResult(g, w, node_id), abort_at)

\* One iteration of the walk for a dirty node that is a key of nodes.
\* abort_at is the number of the callback invocation that returns Abort
\* (0: the callback always returns Continue).
EvalStep(g, w, node_id, abort_at) ==
    StoreResult(g, w, node_id, NodeResult(g, w, node_id), abort_at)

\* Variant of the walk that evaluates every node of the order, dirty or not.
RECURSIVE WalkEveryNode(_, _, _, _)
WalkEveryNode(g, w, order, abort_at) ==
    IF order = <<>> \/ w.partial THEN w
    ELSE IF Head(order) \notin DOMAIN g.nodes
    THEN WalkEveryNode(g, [w EXCEPT !.dirty = @ \ {Head(order)}], Tail(order), abort_at)
    ELSE WalkEveryNode(g, EvalStep(g, w, Head(order), abort_at), Tail(order), abort_at)

\* for node_id in &self.topo_order.clone()
RECURSIVE Walk(_, _, _, _)
Walk(g, w, order, abort_at) ==
    IF order = <<>> \/ w.partial THEN w
    ELSE LET node_id == Head(order)
         IN  IF node_id \notin w.dirty THEN Walk(g, w, Tail(order), abort_at)
             ELSE IF node_id \notin DOMAIN g.nodes
             THEN Walk(g, [w EXCEPT !.dirty = @ \ {node_id}], Tail(order), abort_at)
             ELSE Walk(g, EvalStep(g, w, node_id, abort_at), Tail(order), abort_at)

\* The state of the walk when it starts on g1 (the graph with its
\* topological order rebuilt).
StartWalk(g1, opts, diagnostics) ==
    [values |-> g1.values, dirty |-> g1.dirty, changed_values |-> EmptyMap,
     evaluated_count |-> 0, evaluated |-> <<>>,
     diagnostics |-> diagnostics, partial |-> FALSE, pruned |-> {},
     opts |-> opts, dirty_count |-> Cardinality(g1.dirty),
     trace |-> <<>>, progress |-> <<>>]

\* The IncrementalEvalResult of a finished walk (total_count and dirty_count
\* are the counts of g, the graph at the start of the call).
WalkResult(g, opts, w) ==
    [changed_values |-> w.changed_values,
     diagnostics |-> w.diagnostics,
     evaluated_count |-> w.evaluated_count,
     total_count |-> Cardinality(DOMAIN g.nodes),
     dirty_count |-> Cardinality(g.dirty),
     trace |-> IF opts.trace THEN <<w.trace>> ELSE <<>>,
     partial |-> w.partial]

\* Variant of the end of the call that drops the remaining dirty marks when
\* the callback aborted the walk.
WalkOutcomeAbortClearsDirty(g, g1, opts, w) ==
    [graph |-> [g1 EXCEPT !.values = w.values,
                          !.dirty = IF w.partial THEN {} ELSE w.dirty],
     result |-> WalkResult(g, opts, w),
     evaluated |-> w.evaluated,
     pruned |-> w.pruned,
     progress |-> w.progress]

\* Variant of the end of the call that stores the new values only when the
\* walk ran to completion.
WalkOutcomeAbortDiscardsValues(g, g1, opts, w) ==
    [graph |-> [g1 EXCEPT !.values = IF w.partial THEN g1.values ELSE w.values,
                          !.dirty = w.dirty],
     result |-> WalkResult(g, opts, w),
     evaluated |-> w.evaluated,
     pruned |-> w.pruned,
     progress |-> w.progress]

\* The end of the call: the walk's values and dirty set are the graph's.
WalkOutcome(g, g1, opts, w) ==
    [graph |-> [g1 EXCEPT !.values = w.values, !.dirty = w.dirty],
     result |-> WalkResult(g, opts, w),
     evaluated |-> w.evaluated,
     pruned |-> w.pruned,
     progress |-> w.progress]

\* if self.topo_dirty { rebuild_topo }: the graph and the cycle diagnostics.
EnsureTopo(g, seed) ==
    IF g.topo_dirty THEN rebuild_topo(g, seed)
    ELSE [topo_order |-> g.topo_order, diagnostics |-> <<>>]

WithTopo(g, topo) ==
    [graph |-> [g EXCEPT !.topo_order = topo.topo_order, !.topo_dirty = FALSE],
     diagnostics |-> topo.diagnostics]

\* The walk of evaluate_dirty_with_callback over the rebuilt graph t.graph.
DirtyWalk(t, opts, abort_at) ==
    Walk(t.graph, StartWalk(t.graph, opts, t.diagnostics), t.graph.topo_order, abort_at)

\* Variant of evaluate_dirty_with_callback that drops the remaining dirty
\* marks when the callback aborts the walk.
EndAbortClearsDirty(g, t, opts, abort_at) ==
    WalkOutcomeAbortClearsDirty(g, t.graph, opts, DirtyWalk(t, opts, abort_at))

evaluate_dirty_abort_clears_dirty(g, opts, abort_at, seed) ==
    EndAbortClearsDirty(g, WithTopo(g, EnsureTopo(g, seed)), opts, abort_at)

\* Variant of evaluate_dirty_with_callback that stores the new values only
\* when the walk runs to completion.
EndAbortDiscardsValues(g, t, opts, abort_at) ==
    WalkOutcomeAbortDiscardsValues(g, t.graph, opts, DirtyWalk(t, opts, abort_at))

evaluate_dirty_abort_discards_values(g, opts, abort_at, seed) ==
    EndAbortDiscardsValues(g, WithTopo(g, EnsureTopo(g, seed)), opts, abort_at)

\* The walk and the end of the call on the rebuilt graph t.graph.
WalkAndEnd(g, t, opts, abort_at) ==
    WalkOutcome(g, t.graph, opts, DirtyWalk(t, opts, abort_at))

\* evaluate_dirty_with_callback: returns the graph after the call and the
\* IncrementalEvalResult (plus the ids evaluated, in order, and the ids
\* pruned).  seed is the seeding order used if the topology is rebuilt.
evaluate_dirty_with_callback(g, opts, abort_at, seed) ==
    WalkAndEnd(g, WithTopo(g, EnsureTopo(g, seed)), opts, abort_at)

\* The seeding orders evaluate_dirty can use on g (one dummy when no rebuild).
EvalSeeds(g) == IF g.topo_dirty THEN SeedOrders(InDegree(g)) ELSE {<<>>}

\* ------------------------------------------------------------------------
\* Stateless evaluator (eval.rs) and validator (validate.rs)
\* ------------------------------------------------------------------------

SnapshotNodeIds(snapshot) == {snapshot.nodes[i].id : i \in 1..Len(snapshot.nodes)}

\* in_degree of eval.rs: one entry per node, +1 per edge of the Vec.
EvalInDegree(snapshot) ==
    [id \in SnapshotNodeIds(snapshot)
            \cup {snapshot.edges[i].target : i \in 1..Len(snapshot.edges)} |->
        Cardinality({i \in 1..Len(snapshot.edges) : snapshot.edges[i].target = id})]

\* out_adj of eval.rs: source -> targets, in snapshot order.
EvalOutAdj(snapshot) ==
    [id \in SnapshotNodeIds(snapshot)
            \cup {snapshot.edges[i].source : i \in 1..Len(snapshot.edges)} |->
        LET Mine(e) == e.source = id
            es == SelectSeq(snapshot.edges, Mine)
        IN  [i \in 1..Len(es) |-> es[i].target]]

\* in_edges of eval.rs: target -> in-edges, in snapshot order.
EvalInEdges(snapshot) ==
    [id \in {snapshot.edges[i].target : i \in 1..Len(snapshot.edges)} |->
        LET Mine(e) == e.target = id
        IN  SelectSeq(snapshot.edges, Mine)]

\* Variant of the neighbour loop that queues a neighbour the first time it is
\* reached, without waiting for its remaining in-degree to drop to zero.
RECURSIVE EvalKahnNeighborsEager(_, _)
EvalKahnNeighborsEager(st, neighbors) ==
    IF neighbors = <<>> THEN st
    ELSE LET neighbor == Head(neighbors)
         IN  IF neighbor \in DOMAIN st.remaining_degree
             THEN LET deg == st.remaining_degree[neighbor] - 1
                      seen == Range(st.queue) \cup Range(st.topo_order)
                      st1 == [st EXCEPT !.remaining_degree[neighbor] = deg,
                                        !.queue = IF neighbor \notin seen
                                                  THEN Append(@, neighbor) ELSE @]
                  IN  EvalKahnNeighborsEager(st1, Tail(neighbors))
             ELSE EvalKahnNeighborsEager(st, Tail(neighbors))

RECURSIVE EvalKahnNeighbors(_, _)
EvalKahnNeighbors(st, neighbors) ==
    IF neighbors = <<>> THEN st
    ELSE LET neighbor == Head(neighbors)
         IN  IF neighbor \in DOMAIN st.remaining_degree
             THEN LET deg == st.remaining_degree[neighbor] - 1
                      st1 == [st EXCEPT !.remaining_degree[neighbor] = deg,
                                        !.queue = IF deg = 0 THEN Append(@, neighbor) ELSE @]
                  IN  EvalKahnNeighbors(st1, Tail(neighbors))
             ELSE EvalKahnNeighbors(st, Tail(neighbors))

RECURSIVE EvalKahnLoop(_, _)
EvalKahnLoop(st, out_adj) ==
    IF st.queue = <<>> THEN st
    ELSE LET id == Head(st.queue)
             st1 == [st EXCEPT !.queue = Tail(@), !.topo_order = Append(@, id)]
         IN  EvalKahnLoop(IF id \in DOMAIN out_adj
                          THEN EvalKahnNeighbors(st1, out_adj[id])
                          ELSE st1,
                          out_adj)

\* The topological order of eval.rs for one seeding order.
EvalTopoOrder(snapshot, seed) ==
    EvalKahnLoop([queue |-> seed, topo_order |-> <<>>,
                  remaining_degree |-> EvalInDegree(snapshot)],
                 EvalOutAdj(snapshot)).topo_order

\* Cycle diagnostics of eval.rs, in snapshot.nodes order.
EvalCycleDiagnostics(snapshot, topo_order) ==
    IF Len(topo_order) < Len(snapshot.nodes)
    THEN LET NotPlaced(n) == n.id \notin Range(topo_order)
             ns == SelectSeq(snapshot.nodes, NotPlaced)
         IN  [i \in 1..Len(ns) |-> CycleDiagnostic(ns[i].id)]
    ELSE <<>>

\* node_map: the last node of the Vec with a given id wins.
NodeMap(snapshot) ==
    [id \in SnapshotNodeIds(snapshot) |->
        LET i == CHOOSE j \in 1..Len(snapshot.nodes) :
                    /\ snapshot.nodes[j].id = id
                    /\ \A k \in (j + 1)..Len(snapshot.nodes) : snapshot.nodes[k].id # id
        IN  snapshot.nodes[i]]

\* The value eval.rs computes for node from the values of st.
EvalNodeResult(st, node, node_id, in_edges) ==
    evaluate_node(node.block_type,
                  ApplyManuals(GatherInputs(EmptyMap,
                                            IF node_id \in DOMAIN in_edges
                                            THEN in_edges[node_id] ELSE <<>>,
                                            st.values),
                               node.data),
                  node.data)

\* values.insert(node_id, result), after the diagnostics of the result.
EvalStore(st, node_id, result) ==
    [values |-> Put(st.values, node_id, result),
     diagnostics |-> st.diagnostics \o NodeDiagnostics(node_id, result)]

\* The evaluation loop of eval.rs over the topological order.
RECURSIVE EvalWalk(_, _, _, _)
EvalWalk(st, order, node_map, in_edges) ==
    IF order = <<>> THEN st
    ELSE IF Head(order) \notin DOMAIN node_map
    THEN EvalWalk(st, Tail(order), node_map, in_edges)
    ELSE EvalWalk(EvalStore(st, Head(order),
                            EvalNodeResult(st, node_map[Head(order)], Head(order), in_edges)),
                  Tail(order), node_map, in_edges)

\* The EvalResult of eval.rs once the loop has ended in st.
EvalOutcome(st, topo_order) ==
    [values |-> st.values, diagnostics |-> st.diagnostics,
     topo_order |-> topo_order, partial |-> FALSE]

EvalOver(snapshot, topo_order) ==
    EvalOutcome(EvalWalk([values |-> EmptyMap,
                          diagnostics |-> EvalCycleDiagnostics(snapshot, topo_order)],
                         topo_order, NodeMap(snapshot), EvalInEdges(snapshot)),
                topo_order)

\* eval::evaluate for one seeding order of Kahn's queue.
evaluate(snapshot, seed) == EvalOver(snapshot, EvalTopoOrder(snapshot, seed))

EvalSeedOrders(snapshot) == SeedOrders(EvalInDegree(snapshot))

DanglingDiagnostic(edge_id, end, missing) ==
    [node_id |-> <<>>, level |-> "error", code |-> "DANGLING_EDGE",
     message |-> <<"Edge", edge_id, "references missing", end, "node", missing>>]

\* The dangling-edge loop of validate.
RECURSIVE DanglingDiagnostics(_, _)
DanglingDiagnostics(es, node_ids) ==
    IF es = <<>> THEN <<>>
    ELSE LET edge == Head(es)
         IN  (IF edge.source \notin node_ids
              THEN <<DanglingDiagnostic(edge.id, "source", edge.source)>> ELSE <<>>)
             \o (IF edge.target \notin node_ids
                 THEN <<DanglingDiagnostic(edge.id, "target", edge.target)>> ELSE <<>>)
             \o DanglingDiagnostics(Tail(es), node_ids)

\* validate: Err(UNSUPPORTED_VERSION) or Ok(diagnostics).
validate(snapshot) ==
    IF snapshot.version # 1
    THEN [ok |-> FALSE, code |-> "UNSUPPORTED_VERSION", diagnostics |-> <<>>]
    ELSE [ok |-> TRUE, code |-> "",
          diagnostics |-> DanglingDiagnostics(snapshot.edges, SnapshotNodeIds(snapshot))]

\* ------------------------------------------------------------------------
\* Entry facade (lib.rs).  A payload is the JSON text handed to an entry
\* point: [wellformed |-> FALSE] when serde cannot parse it, otherwise it
\* carries the parsed snapshot or, for a patch, the list of tagged ops.
\* ------------------------------------------------------------------------

PatchOpTags == {"addNode", "removeNode", "updateNodeData", "addEdge", "removeEdge"}

\* serde_json::from_str::<EngineSnapshotV1>
ParseSnapshot(payload) ==
    IF payload.wellformed
    THEN [ok |-> TRUE, snapshot |-> payload.snapshot]
    ELSE [ok |-> FALSE, snapshot |-> [version |-> 0, nodes |-> <<>>, edges |-> <<>>]]

\* serde_json::from_str::<Vec<PatchOp>>: one op with an unknown tag fails
\* the whole patch.
ParsePatch(payload) ==
    IF payload.wellformed /\ \A i \in 1..Len(payload.ops) : payload.ops[i].op \in PatchOpTags
    THEN [ok |-> TRUE, ops |-> payload.ops]
    ELSE [ok |-> FALSE, ops |-> <<>>]

\* The value an entry point returns: an EngineError, an EvalResult or an
\* IncrementalEvalResult (values holds changed_values for the latter).
ErrResult(code) ==
    [kind |-> "EngineError", code |-> code, values |-> EmptyMap, diagnostics |-> <<>>,
     evaluated_count |-> 0, total_count |-> 0, dirty_count |-> 0, trace |-> <<>>,
     partial |-> FALSE]

EvalResult(values, diagnostics, partial) ==
    [kind |-> "EvalResult", code |-> "", values |-> values, diagnostics |-> diagnostics,
     evaluated_count |-> 0, total_count |-> 0, dirty_count |-> 0, trace |-> <<>>,
     partial |-> partial]

IncResult(inc) ==
    [kind |-> "IncrementalEvalResult", code |-> "", values |-> inc.changed_values,
     diagnostics |-> inc.diagnostics, evaluated_count |-> inc.evaluated_count,
     total_count |-> inc.total_count, dirty_count |-> inc.dirty_count,
     trace |-> inc.trace, partial |-> inc.partial]

NoResult ==
    [kind |-> "none", code |-> "", values |-> EmptyMap, diagnostics |-> <<>>,
     evaluated_count |-> 0, total_count |-> 0, dirty_count |-> 0, trace |-> <<>>,
     partial |-> FALSE]

\* What an entry point of the persistent engine leaves behind: the graph
\* after the call and the returned value (plus the ids the walk evaluated
\* and pruned).  Rejected: the early return of an Err.
Rejected(g, code) ==
    [graph |-> g, result |-> ErrResult(code), evaluated |-> <<>>, pruned |-> {},
     progress |-> <<>>]

\* run_load_snapshot wraps the incremental result into an EvalResult.
LoadOutcome(ev) ==
    [graph |-> ev.graph,
     result |-> [EvalResult(ev.result.changed_values, ev.result.diagnostics,
                            ev.result.partial) EXCEPT !.trace = ev.result.trace],
     evaluated |-> ev.evaluated, pruned |-> ev.pruned, progress |-> ev.progress]

\* run_patch and run_set_input return the IncrementalEvalResult itself.
IncOutcome(ev) ==
    [graph |-> ev.graph, result |-> IncResult(ev.result),
     evaluated |-> ev.evaluated, pruned |-> ev.pruned, progress |-> ev.progress]

\* The EvalResult of run: the validation diagnostics follow the evaluator's.
RunResult(r, validation_diagnostics) ==
    EvalResult(r.values, r.diagnostics \o validation_diagnostics, r.partial)

RunValidated(snapshot, v, seed) ==
    IF ~v.ok THEN ErrResult(v.code)
    ELSE RunResult(evaluate(snapshot, seed), v.diagnostics)

\* run: parse, validate, evaluate, append the validation diagnostics.
run(payload, seed) ==
    IF ~ParseSnapshot(payload).ok THEN ErrResult("INVALID_SNAPSHOT")
    ELSE RunValidated(ParseSnapshot(payload).snapshot,
                      validate(ParseSnapshot(payload).snapshot), seed)

\* Variant of run_load_snapshot_with_options that loads the parsed snapshot
\* into the graph before it validates the version.
run_load_snapshot_loads_first(g, payload, opts, abort_at, seed) ==
    LET parsed == ParseSnapshot(payload)
        v == validate(parsed.snapshot)
    IN  IF ~parsed.ok THEN Rejected(g, "INVALID_SNAPSHOT")
        ELSE IF ~v.ok THEN Rejected(load_snapshot(g, parsed.snapshot), v.code)
        ELSE LoadOutcome(evaluate_dirty_with_callback(
                             load_snapshot(g, parsed.snapshot), opts, abort_at, seed))

\* run_load_snapshot_with_options: graph after the call, and the result.
run_load_snapshot(g, payload, opts, abort_at, seed) ==
    LET parsed == ParseSnapshot(payload)
        v == validate(parsed.snapshot)
    IN  IF ~parsed.ok THEN Rejected(g, "INVALID_SNAPSHOT")
        ELSE IF ~v.ok THEN Rejected(g, v.code)
        ELSE LoadOutcome(evaluate_dirty_with_callback(
                             load_snapshot(g, parsed.snapshot), opts, abort_at, seed))

\* run_patch_with_options: graph after the call, and the result.
run_patch(g, payload, opts, abort_at, seed) ==
    LET parsed == ParsePatch(payload)
    IN  IF ~parsed.ok THEN Rejected(g, "INVALID_SNAPSHOT")
        ELSE IncOutcome(evaluate_dirty_with_callback(
                            apply_patch(g, parsed.ops), opts, abort_at, seed))

\* Variant of set_input that replaces manualValues by the one new entry.
set_input_replaces_manuals(g, node_id, port_id, value) ==
    IF node_id \in DOMAIN g.nodes
    THEN LET data == g.nodes[node_id].data
             g1 == [g EXCEPT !.nodes[node_id].data =
                                Put(data, "manualValues",
                                    Put(EmptyMap, port_id, JsonNumber(value)))]
         IN  mark_dirty(g1, node_id)
    ELSE g

\* Variant of set_input that also raises topo_dirty.
set_input_invalidates_topo(g, node_id, port_id, value) ==
    IF node_id \in DOMAIN g.nodes
    THEN LET data == g.nodes[node_id].data
             manuals == IF "manualValues" \in DOMAIN data THEN data["manualValues"]
                        ELSE EmptyMap
             g1 == [g EXCEPT !.nodes[node_id].data =
                                Put(data, "manualValues",
                                    IF as_object(manuals) # <<>>
                                    THEN Put(manuals, port_id, JsonNumber(value))
                                    ELSE manuals),
                             !.topo_dirty = TRUE]
         IN  mark_dirty(g1, node_id)
    ELSE g

\* EngineGraph::set_input
set_input(g, node_id, port_id, value) ==
    IF node_id \in DOMAIN g.nodes
    THEN LET data == g.nodes[node_id].data
             manuals == IF "manualValues" \in DOMAIN data THEN data["manualValues"]
                        ELSE EmptyMap
             g1 == [g EXCEPT !.nodes[node_id].data =
                                Put(data, "manualValues",
                                    IF as_object(manuals) # <<>>
                                    THEN Put(manuals, port_id, JsonNumber(value))
                                    ELSE manuals)]
         IN  mark_dirty(g1, node_id)
    ELSE g

\* run_set_input
run_set_input(g, node_id, port_id, value, seed) ==
    IncOutcome(evaluate_dirty_with_callback(set_input(g, node_id, port_id, value),
                                            DefaultOptions, 0, seed))

\* ------------------------------------------------------------------------
\* Inputs explored
\* ------------------------------------------------------------------------

NodeIds == {"a", "b", "c"}

num_node(id, val) == [id |-> id, block_type |-> "number", data |-> [value |-> val]]

op_node(id, block_type) == [id |-> id, block_type |-> block_type, data |-> EmptyMap]

edge(id, src, src_h, tgt, tgt_h) ==
    [id |-> id, source |-> src, source_handle |-> src_h, target |-> tgt,
     target_handle |-> tgt_h]

\* The nodes a snapshot or an AddNode op can carry.
NodeUniverse ==
    {num_node("a", 0), num_node("a", 1), num_node("b", 1), op_node("b", "negate"),
     op_node("c", "add")}

\* The edges a snapshot or an AddEdge op can carry: a fan-in on c (e1, e2),
\* a back edge closing the cycle a -> c -> a (e3), a chain a -> b -> c (e4, e2)
\* and a self-loop (e5).  An edge dangles when its endpoint is not a node.
EdgeUniverse ==
    {edge("e1", "a", "out", "c", "a"),
     edge("e2", "b", "out", "c", "b"),
     edge("e3", "c", "out", "a", "a"),
     edge("e4", "a", "out", "b", "a"),
     edge("e5", "b", "out", "b", "a")}

EdgeIds == {e.id : e \in EdgeUniverse}

EdgeById(id) == CHOOSE e \in EdgeUniverse : e.id = id

\* The (node, data) pairs of the UpdateNodeData ops.
UpdateUniverse ==
    {<<"a", [value |-> 0]>>, <<"a", [value |-> 1]>>, <<"b", [value |-> 1]>>,
     <<"c", EmptyMap>>}

UpdateOps == {[op |-> "updateNodeData", nodeId |-> u[1], data |-> u[2]] : u \in UpdateUniverse}

PatchOps ==
    {[op |-> "addNode", node |-> n] : n \in NodeUniverse}
    \cup {[op |-> "removeNode", nodeId |-> id] : id \in NodeIds}
    \cup UpdateOps
    \cup {[op |-> "addEdge", edge |-> e] : e \in EdgeUniverse}
    \cup {[op |-> "removeEdge", edgeId |-> id] : id \in EdgeIds}

\* The (node, port, value) triples of the set_input calls.
SetInputUniverse == {<<"c", "b", 1>>, <<"b", "a", 1>>}

Snapshot(ns, es) == [version |-> 1, nodes |-> ns, edges |-> es]

AllNodes == <<num_node("a", 1), num_node("b", 1), op_node("c", "add")>>

\* Snapshots loaded in the interleaving specifications: the fan-in a+b, the
\* chain, a cycle {a, c} with b downstream of it, and a two-node graph with a
\* self-loop and an edge to a missing node.
Snapshots ==
    {Snapshot(AllNodes, <<EdgeById("e1"), EdgeById("e2")>>),
     Snapshot(AllNodes, <<EdgeById("e4"), EdgeById("e2")>>),
     Snapshot(AllNodes, <<EdgeById("e1"), EdgeById("e3"), EdgeById("e4")>>),
     Snapshot(<<num_node("a", 1), num_node("b", 1)>>,
              <<EdgeById("e1"), EdgeById("e5")>>)}

\* Subsequences of a sequence (order kept).
RECURSIVE SubSeqs(_)
SubSeqs(s) ==
    IF s = <<>> THEN {<<>>}
    ELSE LET rest == SubSeqs(Tail(s))
         IN  rest \cup {<<Head(s)>> \o r : r \in rest}

\* Every snapshot over the node and edge universes (one value of a).
AllSnapshots ==
    {Snapshot(ns, es) : ns \in SubSeqs(AllNodes),
                        es \in SubSeqs(<<EdgeById("e1"), EdgeById("e2"), EdgeById("e3"),
                                         EdgeById("e4"), EdgeById("e5")>>)}

Malformed == [wellformed |-> FALSE]

SnapshotPayload(snapshot) == [wellformed |-> TRUE, snapshot |-> snapshot]

PatchPayload(ops) == [wellformed |-> TRUE, ops |-> ops]

\* A snapshot of an unsupported version.
Version2(snapshot) == [snapshot EXCEPT !.version = 2]

\* Payloads of the load entry point in the facade specification.
LoadPayloads ==
    {SnapshotPayload(sn) : sn \in Snapshots}
    \cup {SnapshotPayload(Version2(sn)) : sn \in Snapshots}
    \cup {Malformed}

\* Payloads of the patch entry point: one op, two data updates, a patch
\* whose second op has a tag outside the PatchOp variants, and garbage.
PatchPayloads ==
    {PatchPayload(<<o>>) : o \in PatchOps}
    \cup {PatchPayload(<<o1, o2>>) : o1 \in UpdateOps, o2 \in UpdateOps}
    \cup {PatchPayload(<<o, [op |-> "renameNode", nodeId |-> "a"]>>) : o \in PatchOps}
    \cup {Malformed}

\* Identifiers are unique within their kind (data model): a patch is explored
\* only if each of its AddEdge ops carries an edge id that is not in use
\* when the op is applied.
RECURSIVE FreshEdgeIds(_, _)
FreshEdgeIds(g, ops) ==
    IF ops = <<>> THEN TRUE
    ELSE /\ Head(ops).op = "addEdge" => Head(ops).edge.id \notin DOMAIN g.edges
         /\ FreshEdgeIds(ApplyOp(g, Head(ops)), Tail(ops))

\* ------------------------------------------------------------------------
\* State
\* ------------------------------------------------------------------------

VARIABLES
    nodes, edges, out_adj, in_adj, topo_order, values, dirty, topo_dirty, datasets,
    call,       \* the last API call: its name and the abort point given to it
    result,     \* what that call returned
    walk,       \* the ids that call evaluated (in order) and the ids it pruned
    steps       \* number of API calls made

graph_vars == <<nodes, edges, out_adj, in_adj, topo_order, values, dirty, topo_dirty, datasets>>

vars == <<nodes, edges, out_adj, in_adj, topo_order, values, dirty, topo_dirty, datasets,
          call, result, walk, steps>>

\* The EngineGraph as a record.
G ==
    [nodes |-> nodes, edges |-> edges, out_adj |-> out_adj, in_adj |-> in_adj,
     topo_order |-> topo_order, values |-> values, dirty |-> dirty,
     topo_dirty |-> topo_dirty, datasets |-> datasets]

GPrime ==
    [nodes |-> nodes', edges |-> edges', out_adj |-> out_adj', in_adj |-> in_adj',
     topo_order |-> topo_order', values |-> values', dirty |-> dirty',
     topo_dirty |-> topo_dirty', datasets |-> datasets']

SetGraph(g) ==
    /\ nodes' = g.nodes
    /\ edges' = g.edges
    /\ out_adj' = g.out_adj
    /\ in_adj' = g.in_adj
    /\ topo_order' = g.topo_order
    /\ values' = g.values
    /\ dirty' = g.dirty
    /\ topo_dirty' = g.topo_dirty
    /\ datasets' = g.datasets

NoWalk == [evaluated |-> <<>>, pruned |-> {}, progress |-> <<>>]

\* The call returns: its outcome r becomes the state of the engine.
Commit(r) ==
    /\ SetGraph(r.graph)
    /\ result' = r.result
    /\ walk' = [evaluated |-> r.evaluated, pruned |-> r.pruned, progress |-> r.progress]

Call(name, abort_at) == [name |-> name, abort_at |-> abort_at]

Init ==
    /\ nodes = NewGraph.nodes
    /\ edges = NewGraph.edges
    /\ out_adj = NewGraph.out_adj
    /\ in_adj = NewGraph.in_adj
    /\ topo_order = NewGraph.topo_order
    /\ values = NewGraph.values
    /\ dirty = NewGraph.dirty
    /\ topo_dirty = NewGraph.topo_dirty
    /\ datasets = NewGraph.datasets
    /\ call = Call("new", 0)
    /\ result = NoResult
    /\ walk = NoWalk
    /\ steps = 0

\* ------------------------------------------------------------------------
\* Actions: the methods of EngineGraph
\* ------------------------------------------------------------------------

LoadSnapshot(snapshot) ==
    /\ steps < MaxSteps
    /\ SetGraph(load_snapshot(G, snapshot))
    /\ call' = Call("load_snapshot", 0)
    /\ result' = NoResult
    /\ walk' = NoWalk
    /\ steps' = steps + 1

ApplyPatch(ops) ==
    /\ steps < MaxSteps
    /\ FreshEdgeIds(G, ops)
    /\ SetGraph(apply_patch(G, ops))
    /\ call' = Call("apply_patch", 0)
    /\ result' = NoResult
    /\ walk' = NoWalk
    /\ steps' = steps + 1

SetInput(node_id, port_id, value) ==
    /\ steps < MaxSteps
    /\ SetGraph(set_input(G, node_id, port_id, value))
    /\ call' = Call("set_input", 0)
    /\ result' = NoResult
    /\ walk' = NoWalk
    /\ steps' = steps + 1

EvaluateDirty(abort_at, seed) ==
    /\ steps < MaxSteps
    /\ Commit(IncOutcome(evaluate_dirty_with_callback(G, DefaultOptions, abort_at, seed)))
    /\ call' = Call("evaluate_dirty", abort_at)
    /\ steps' = steps + 1

Next ==
    \/ \E snapshot \in Snapshots : LoadSnapshot(snapshot)
    \/ \E o \in PatchOps : ApplyPatch(<<o>>)
    \/ \E u \in SetInputUniverse : SetInput(u[1], u[2], u[3])
    \/ \E abort_at \in 0..MaxAbort : \E seed \in EvalSeeds(G) : EvaluateDirty(abort_at, seed)

Spec == Init /\ [][Next]_vars

\* ------------------------------------------------------------------------
\* Actions: the entry points of lib.rs
\* ------------------------------------------------------------------------

Run(payload, seed) ==
    /\ steps < MaxCalls
    /\ result' = run(payload, seed)
    /\ call' = Call("run", 0)
    /\ walk' = NoWalk
    /\ steps' = steps + 1
    /\ UNCHANGED graph_vars

RunLoadSnapshot(payload, seed) ==
    /\ steps < MaxCalls
    /\ Commit(run_load_snapshot(G, payload, DefaultOptions, 0, seed))
    /\ call' = Call("run_load_snapshot", 0)
    /\ steps' = steps + 1

RunPatch(payload, seed) ==
    /\ steps < MaxCalls
    /\ FreshEdgeIds(G, ParsePatch(payload).ops)
    /\ Commit(run_patch(G, payload, DefaultOptions, 0, seed))
    /\ call' = Call("run_patch", 0)
    /\ steps' = steps + 1

RunSetInput(node_id, port_id, value, seed) ==
    /\ steps < MaxCalls
    /\ Commit(run_set_input(G, node_id, port_id, value, seed))
    /\ call' = Call("run_set_input", 0)
    /\ steps' = steps + 1

\* Seeding orders available to the evaluation inside each entry point.
RunSeeds(payload) ==
    IF ParseSnapshot(payload).ok THEN EvalSeedOrders(payload.snapshot) ELSE {<<>>}

LoadSeeds(g, payload) ==
    IF ParseSnapshot(payload).ok THEN EvalSeeds(load_snapshot(g, payload.snapshot))
    ELSE {<<>>}

PatchSeeds(g, payload) ==
    IF ParsePatch(payload).ok THEN EvalSeeds(apply_patch(g, payload.ops)) ELSE {<<>>}

NextFacade ==
    \/ \E payload \in LoadPayloads : \E seed \in RunSeeds(payload) : Run(payload, seed)
    \/ \E payload \in LoadPayloads : \E seed \in LoadSeeds(G, payload) :
          RunLoadSnapshot(payload, seed)
    \/ \E payload \in PatchPayloads : \E seed \in PatchSeeds(G, payload) :
          RunPatch(payload, seed)
    \/ \E u \in SetInputUniverse :
          \E seed \in EvalSeeds(set_input(G, u[1], u[2], u[3])) :
             RunSetInput(u[1], u[2], u[3], seed)

SpecFacade == Init /\ [][NextFacade]_vars

\* run_load_snapshot over every snapshot of the universe, on a fresh graph
\* or on a graph that holds an earlier snapshot.
LoadAny(payload, seed) ==
    /\ steps < MaxLoads
    /\ Commit(run_load_snapshot(G, payload, DefaultOptions, 0, seed))
    /\ call' = [name |-> "run_load_snapshot", abort_at |-> 0, payload |-> payload]
    /\ steps' = steps + 1

NextLoad ==
    \E snapshot \in AllSnapshots :
       \E seed \in LoadSeeds(G, SnapshotPayload(snapshot)) :
          LoadAny(SnapshotPayload(snapshot), seed)

SpecLoad == Init /\ [][NextLoad]_vars

\* ------------------------------------------------------------------------
\* Reference notions used by the properties
\* ------------------------------------------------------------------------

\* The snapshot the persistent graph g currently describes: its nodes, and
\* its edges in the per-target insertion order kept by in_adj.
RECURSIVE ConcatRows(_, _)
ConcatRows(g, targets) ==
    IF targets = <<>> THEN <<>>
    ELSE LET row == g.in_adj[Head(targets)]
         IN  [i \in 1..Len(row) |-> g.edges[row[i].id]] \o ConcatRows(g, Tail(targets))

CurrentSnapshot(g) ==
    LET ids == SetToSeq(DOMAIN g.nodes)
    IN  Snapshot([i \in 1..Len(ids) |-> g.nodes[ids[i]]],
                 ConcatRows(g, SetToSeq(DOMAIN g.in_adj)))

\* t is reachable from s along one or more edges of g.edges.
RECURSIVE ReachFrom(_, _)
ReachFrom(g, frontier) ==
    LET next == frontier \cup {g.edges[e].target : e \in {x \in DOMAIN g.edges :
                                                         g.edges[x].source \in frontier}}
    IN  IF next = frontier THEN frontier ELSE ReachFrom(g, next)

Successors(g, s) == {g.edges[e].target : e \in {x \in DOMAIN g.edges : g.edges[x].source = s}}

Descendants(g, s) ==
    IF Successors(g, s) = {} THEN {} ELSE ReachFrom(g, Successors(g, s))

OnCycle(g, n) == n \in Descendants(g, n)

\* The value node_id gets if it is evaluated against the cache of g now.
ValueNow(g, node_id) ==
    evaluate_node_with_datasets(g.nodes[node_id].block_type,
                                NodeInputs(g, node_id, g.values),
                                g.nodes[node_id].data, g.datasets)

\* Number of diagnostics with the given code and node id in a list.
DiagCount(diags, code, id) ==
    Cardinality({i \in 1..Len(diags) : diags[i].code = code /\ diags[i].node_id = <<id>>})

\* ------------------------------------------------------------------------
\* Properties
\* ------------------------------------------------------------------------

\* Node by node, the cache of g holds the value that the stateless evaluator
\* assigns to that node in the snapshot g describes.
CacheMatchesFull(g) ==
    \A seed \in EvalSeedOrders(CurrentSnapshot(g)) :
       LET full == evaluate(CurrentSnapshot(g), seed).values
       IN  \A n \in DOMAIN full : n \in DOMAIN g.values /\ g.values[n] = full[n]

\* C1: incremental/full equivalence. After a successful load(S) followed by a
\* successful patch(P), each with its uninterrupted evaluate_dirty, every node
\* to which run assigns a value in the patched snapshot has exactly that value
\* in the cache of the persistent graph.
C1_IncrementalEqualsFull ==
    [][(/\ call.name = "run_load_snapshot" /\ result.kind = "EvalResult"
        /\ call'.name = "run_patch" /\ result'.kind = "IncrementalEvalResult")
       => CacheMatchesFull(GPrime)]_vars

\* Node n of g is stale: its cached entry is not what a from-scratch
\* evaluation of the current nodes and edges produces for it.
Stale(g, n) ==
    \E seed \in EvalSeedOrders(CurrentSnapshot(g)) :
       LET full == evaluate(CurrentSnapshot(g), seed).values
       IN  \/ n \in DOMAIN full /\ n \notin DOMAIN g.values
           \/ n \in DOMAIN full /\ n \in DOMAIN g.values /\ full[n] # g.values[n]

\* C2: dirty-set superset invariant. In every reachable state every stale
\* node is a member of dirty.
C2_DirtySuperset == \A n \in DOMAIN nodes : Stale(G, n) => n \in dirty

\* C3: pruning never leaves a stale value. Every node that an evaluate_dirty
\* call took out of dirty by pruning has a cached value equal to the value it
\* gets if evaluated against the cache now.
C3_PruneNeverStale ==
    call.name = "evaluate_dirty" =>
       \A t \in walk.pruned \cap DOMAIN nodes :
          t \in DOMAIN values /\ values[t] = ValueNow(G, t)

\* The evaluate_dirty call that never aborts, issued in the state after the
\* step (the topology is clean there, so no seeding order is involved).
Resumed == evaluate_dirty_with_callback(GPrime, DefaultOptions, 0, <<>>)

\* The step is an evaluate_dirty call on a freshly loaded snapshot that the
\* callback aborted.
AbortedAfterLoad ==
    call.name = "load_snapshot" /\ call'.name = "evaluate_dirty" /\ result'.partial

CacheEntryUntouched(n) ==
    /\ n \in DOMAIN values <=> n \in DOMAIN values'
    /\ n \in DOMAIN values => values'[n] = values[n]

\* C5: abort leaves a valid intermediate state. When the callback returns
\* Abort at its k-th invocation, evaluate_dirty evaluates exactly k nodes and
\* returns partial = true and evaluated_count = k; the evaluated nodes hold
\* their new values and are not dirty; every node that was dirty at entry and
\* was neither evaluated nor pruned is still dirty with its cache entry
\* untouched.
C5_AbortIntermediateState ==
    [][(/\ call'.name = "evaluate_dirty"
        /\ call'.abort_at > 0
        /\ Len(walk'.evaluated) >= call'.abort_at)
       => /\ result'.partial
          /\ result'.evaluated_count = call'.abort_at
          /\ Len(walk'.evaluated) = call'.abort_at
          /\ \A n \in Range(walk'.evaluated) :
                /\ n \notin dirty'
                /\ n \in DOMAIN values'
                /\ values'[n] = result'.values[n]
          /\ \A n \in (dirty \cap DOMAIN nodes) \ (Range(walk'.evaluated) \cup walk'.pruned) :
                n \in dirty' /\ CacheEntryUntouched(n)]_vars

\* An aborted call that evaluated a node and left a node dirty whose cache
\* entry dates from an earlier evaluation.
C5_Witness ==
    /\ call.name = "evaluate_dirty"
    /\ result.partial
    /\ result.evaluated_count = call.abort_at
    /\ \E n \in dirty \cap DOMAIN values : n \notin Range(walk.evaluated)

\* Position of the first occurrence of id in a sequence that holds it.
IndexOf(seq, id) == CHOOSE i \in 1..Len(seq) : seq[i] = id /\ \A j \in 1..(i - 1) : seq[j] # id

Occurrences(seq, id) == Cardinality({i \in 1..Len(seq) : seq[i] = id})

\* C6: topology correctness. Once evaluate_dirty has rebuilt topo_order for
\* the current structure, (a) every node that is not on a cycle occurs in it
\* exactly once, (b) every id in it is a key of nodes, and (c) the source of
\* every edge precedes its target when both occur.
C6_TopologyCorrect ==
    ~topo_dirty =>
       /\ \A n \in DOMAIN nodes : ~OnCycle(G, n) => Occurrences(topo_order, n) = 1
       /\ Range(topo_order) \subseteq DOMAIN nodes
       /\ \A e \in DOMAIN edges :
             (edges[e].source \in Range(topo_order) /\ edges[e].target \in Range(topo_order))
             => IndexOf(topo_order, edges[e].source) < IndexOf(topo_order, edges[e].target)

\* C7: stateless/persistent agreement. The values returned by a successful
\* run_load_snapshot, on a fresh graph or on one holding an earlier snapshot,
\* are the values run returns for the same payload.
C7_LoadEqualsRun ==
    (call.name = "run_load_snapshot" /\ result.kind = "EvalResult") =>
       \A seed \in RunSeeds(call.payload) :
          result.values = run(call.payload, seed).values

\* A second load, over a graph that already held a snapshot, of a snapshot in
\* which c adds two inputs.
C7_Witness ==
    /\ steps = 2
    /\ call.name = "run_load_snapshot"
    /\ "c" \in DOMAIN result.values
    /\ result.values["c"] = Scalar(F(2))

\* C8: cycle reporting. When evaluate_dirty rebuilds the topology, every node
\* on a directed cycle gets exactly one CYCLE_DETECTED diagnostic of level
\* error carrying its id and no value in the result of that call.
C8_CycleReported ==
    [][(topo_dirty /\ call'.name = "evaluate_dirty") =>
          \A n \in DOMAIN nodes' :
             OnCycle(GPrime, n) =>
                /\ DiagCount(result'.diagnostics, "CYCLE_DETECTED", n) = 1
                /\ \A i \in 1..Len(result'.diagnostics) :
                      (result'.diagnostics[i].code = "CYCLE_DETECTED"
                       /\ result'.diagnostics[i].node_id = <<n>>)
                      => result'.diagnostics[i].level = "error"
                /\ n \notin DOMAIN result'.values]_vars

\* C9: fatal errors do not mutate state. A load or patch entry point that
\* returns an error leaves every component of the persistent graph as it was.
C9_ErrorLeavesGraph ==
    [][(call'.name \in {"run_load_snapshot", "run_patch"} /\ result'.kind = "EngineError")
       => UNCHANGED graph_vars]_vars

\* A load rejected for its version on a graph that holds evaluated nodes.
C9_Witness ==
    /\ call.name = "run_load_snapshot"
    /\ result.kind = "EngineError"
    /\ result.code = "UNSUPPORTED_VERSION"
    /\ DOMAIN values # {}

\* C10: RemoveNode marks downstream dirty. After a patch that removes node n,
\* every remaining node that was the target of an edge from n, and every
\* descendant of such a node, is in dirty.
C10_RemoveNodeMarksDirty ==
    [][call'.name = "apply_patch" =>
          \A n \in (DOMAIN nodes) \ (DOMAIN nodes') :
             \A t \in Successors(G, n) \ {n} :
                ({t} \cup Descendants(GPrime, t)) \cap DOMAIN nodes' \subseteq dirty']_vars

\* The id a patch op hands to mark_dirty in graph g (none for RemoveNode and
\* for an op on a node or edge that does not exist).
MarkedBy(g, op) ==
    CASE op.op = "addNode" -> {op.node.id}
      [] op.op = "updateNodeData" -> {op.nodeId} \cap DOMAIN g.nodes
      [] op.op = "addEdge" -> {op.edge.target}
      [] op.op = "removeEdge" ->
            IF op.edgeId \in DOMAIN g.edges THEN {g.edges[op.edgeId].target} ELSE {}
      [] OTHER -> {}

\* In g every id of marked, and every node reachable from it, is dirty.
DownstreamDirty(g, marked) ==
    \A m \in marked :
        ({m} \cup (Descendants(g, m) \cap DOMAIN g.nodes)) \subseteq g.dirty

Parents(g, t) == {g.edges[e].source : e \in {x \in DOMAIN g.edges : g.edges[x].target = t}}

\* The ids reached from the ids of X by repeatedly stepping to a successor
\* none of whose parents is in d once the ids reached so far are taken out.
RECURSIVE PruneClosure(_, _, _)
PruneClosure(g, d, X) ==
    LET new == {t \in UNION {Successors(g, x) : x \in X} :
                   t \notin X /\ Parents(g, t) \cap (d \ X) = {}}
    IN  IF new = {} THEN X ELSE PruneClosure(g, d, X \cup new)

\* The walk of the evaluate_dirty step being taken, cut after its k-th
\* evaluation (k = 0: before the first).
WalkPrefix(k) ==
    LET g1 == [G EXCEPT !.topo_order = topo_order', !.topo_dirty = FALSE]
        w0 == [values |-> values, dirty |-> dirty, changed_values |-> EmptyMap,
               evaluated_count |-> 0, evaluated |-> <<>>,
               diagnostics |-> <<>>, partial |-> FALSE, pruned |-> {},
               opts |-> DefaultOptions, dirty_count |-> Cardinality(dirty),
               trace |-> <<>>, progress |-> <<>>]
    IN  IF k = 0 THEN w0 ELSE Walk(g1, w0, topo_order', k)

\* The dirty set when the walk reaches its k-th evaluated node n: the ids
\* that precede n in topo_order and are not nodes have been dropped.
DirtyAt(k, n) ==
    WalkPrefix(k - 1).dirty \
        ({topo_order'[i] : i \in 1..(IndexOf(topo_order', n) - 1)} \ DOMAIN nodes)

\* The k-th evaluation of the step found the cached value again.
UnchangedAt(k, n) ==
    /\ n \in DOMAIN WalkPrefix(k - 1).values
    /\ values_equal(WalkPrefix(k - 1).values[n], WalkPrefix(k).values[n])

\* Each evaluation of the step that finds the cached value again takes out of
\* dirty exactly the closure of successors with no dirty parent, and none of
\* them is evaluated or reported by the call.
PrunesOnUnchanged ==
    \A k \in 1..Len(walk'.evaluated) :
        LET n == walk'.evaluated[k]
            closure == PruneClosure(G, DirtyAt(k, n) \ {n}, {n})
        IN  IF UnchangedAt(k, n)
            THEN /\ WalkPrefix(k).dirty = DirtyAt(k, n) \ closure
                 /\ \A t \in (closure \ {n}) \cap DirtyAt(k, n) :
                       /\ t \in walk'.pruned
                       /\ t \notin Range(walk'.evaluated)
                       /\ t \notin DOMAIN result'.values
                       /\ t \notin dirty'
            ELSE WalkPrefix(k).dirty = DirtyAt(k, n) \ {n}

\* When the call returns, no successor of an evaluated-but-unchanged node
\* whose parents are all clean is left in dirty.
NoCleanParentedSuccessorDirty ==
    \A k \in 1..Len(walk'.evaluated) :
        LET n == walk'.evaluated[k]
        IN  UnchangedAt(k, n) =>
                \A t \in Successors(G, n) : Parents(G, t) \cap dirty' = {} => t \notin dirty'

register_dataset_keeps_first(g, id, data) ==
    IF id \in DOMAIN g.datasets THEN g
    ELSE [g EXCEPT !.datasets = Put(@, id, data)]

register_dataset(g, id, data) == [g EXCEPT !.datasets = Put(@, id, data)]

release_dataset(g, id) == [g EXCEPT !.datasets = Del(@, id)]

DatasetIds == {"ds1"}

DatasetUniverse == {<<F(1)>>, <<F(1), F(2)>>}

RegisterDataset(id, data) ==
    /\ steps < MaxSteps
    /\ SetGraph(register_dataset(G, id, data))
    /\ call' = [name |-> "register_dataset", abort_at |-> 0, id |-> id, data |-> data]
    /\ result' = NoResult
    /\ walk' = NoWalk
    /\ steps' = steps + 1

ReleaseDataset(id) ==
    /\ steps < MaxSteps
    /\ SetGraph(release_dataset(G, id))
    /\ call' = [name |-> "release_dataset", abort_at |-> 0, id |-> id]
    /\ result' = NoResult
    /\ walk' = NoWalk
    /\ steps' = steps + 1

NextDatasets ==
    \/ \E id \in DatasetIds : \E data \in DatasetUniverse : RegisterDataset(id, data)
    \/ \E id \in DatasetIds : ReleaseDataset(id)
    \/ \E snapshot \in Snapshots : LoadSnapshot(snapshot)
    \/ \E abort_at \in 0..MaxAbort : \E seed \in EvalSeeds(G) : EvaluateDirty(abort_at, seed)

SpecDatasets == Init /\ [][NextDatasets]_vars

\* The out-adjacency row of id in snapshot S, in the order of S.edges.
OutRow(S, id) ==
    LET es == SelectSeq(S.edges, LAMBDA e : e.source = id)
    IN  [i \in 1..Len(es) |-> [id |-> es[i].id, target |-> es[i].target,
                               target_handle |-> es[i].target_handle]]

\* The in-adjacency row of id in snapshot S, in the order of S.edges.
InRow(S, id) ==
    LET es == SelectSeq(S.edges, LAMBDA e : e.target = id)
    IN  [i \in 1..Len(es) |-> [id |-> es[i].id, source |-> es[i].source,
                               source_handle |-> es[i].source_handle,
                               target_handle |-> es[i].target_handle]]

\* g2 is what the claim says load_snapshot(S) makes of g.
LoadPostcondition(g, S, g2) ==
    /\ DOMAIN g2.nodes = {S.nodes[i].id : i \in 1..Len(S.nodes)}
    /\ \A i \in 1..Len(S.nodes) : g2.nodes[S.nodes[i].id] = S.nodes[i]
    /\ DOMAIN g2.edges = {S.edges[i].id : i \in 1..Len(S.edges)}
    /\ \A i \in 1..Len(S.edges) : g2.edges[S.edges[i].id] = S.edges[i]
    /\ DOMAIN g2.out_adj = DOMAIN g2.nodes \cup {S.edges[i].source : i \in 1..Len(S.edges)}
    /\ \A id \in DOMAIN g2.out_adj : g2.out_adj[id] = OutRow(S, id)
    /\ DOMAIN g2.in_adj = DOMAIN g2.nodes \cup {S.edges[i].target : i \in 1..Len(S.edges)}
    /\ \A id \in DOMAIN g2.in_adj : g2.in_adj[id] = InRow(S, id)
    /\ g2.values = EmptyMap
    /\ g2.dirty = DOMAIN g2.nodes
    /\ g2.topo_dirty
    /\ g2.datasets = g.datasets

\* C13: load_snapshot postcondition. From every reachable state, loading any
\* snapshot S leaves exactly the nodes and edges of S, exactly the adjacency
\* of S's edges, no cached value, dirty equal to the node ids of S,
\* topo_dirty set, and the dataset registry as it was.
C13_LoadPostcondition ==
    \A S \in AllSnapshots : LoadPostcondition(G, S, load_snapshot(G, S))

\* A snapshot has been loaded over an engine that had evaluated another one
\* and holds a registered dataset.
C13_Witness ==
    /\ call.name = "load_snapshot"
    /\ topo_order # <<>>
    /\ datasets # EmptyMap
    /\ values = EmptyMap

\* A graph that has never held a canvas, with the dataset registry of g.
FreshGraph(g) == [NewGraph EXCEPT !.datasets = g.datasets]

\* Every node id a result names, as a key of its values or in a diagnostic.
ResultNodeIds(r) ==
    DOMAIN r.values \cup
    {r.diagnostics[i].node_id[1] :
        i \in {j \in 1..Len(r.diagnostics) : r.diagnostics[j].node_id # <<>>}}

\* C14: canvas isolation. Whatever the engine held before (earlier loads,
\* patches, set_input calls and their evaluations), loading a snapshot S_b
\* returns the result and leaves the engine in the state that loading S_b
\* into a new engine does, so that neither this result nor a later one can
\* carry a value cached from an earlier canvas; and every result of a load,
\* patch or set_input names only node ids of the current graph.
C14_CanvasIsolation ==
    /\ \A sn \in Snapshots :
          \A seed \in LoadSeeds(G, SnapshotPayload(sn)) :
             run_load_snapshot(G, SnapshotPayload(sn), DefaultOptions, 0, seed)
                = run_load_snapshot(FreshGraph(G), SnapshotPayload(sn),
                                    DefaultOptions, 0, seed)
    /\ call.name \in {"run_load_snapshot", "run_patch", "run_set_input"}
          => ResultNodeIds(result) \subseteq DOMAIN nodes

\* The engine holds the values of a loaded canvas in which c has another
\* value than in a canvas that can be loaded next.
C14_Witness ==
    /\ call.name = "run_load_snapshot"
    /\ "c" \in DOMAIN values
    /\ \E sn \in Snapshots :
          \E seed \in LoadSeeds(G, SnapshotPayload(sn)) :
             LET after == run_load_snapshot(G, SnapshotPayload(sn), DefaultOptions, 0, seed).graph
             IN  "c" \in DOMAIN after.values /\ after.values["c"] # values["c"]

\* ------------------------------------------------------------------------
\* The stateless entry point on arbitrary snapshots
\* ------------------------------------------------------------------------

\* Snapshots of the stateless runs: the nodes a = 1, b = -(in), c = a + b,
\* d = 2, or these without a or without d, with any of the edges a -> c.a,
\* b -> c.b, c -> a.a, a -> b.a and d -> c.a (two sources, an op fed by an op,
\* a cycle, dangling edges, two edges into one port).
RunSnapshots ==
    {Snapshot(ns, es) :
        ns \in {<<num_node("a", 1), op_node("b", "negate"), op_node("c", "add"),
                  num_node("d", 2)>>,
                <<op_node("b", "negate"), op_node("c", "add"), num_node("d", 2)>>,
                <<num_node("a", 1), op_node("b", "negate"), op_node("c", "add")>>},
        es \in SubSeqs(<<EdgeById("e1"), EdgeById("e2"), EdgeById("e3"), EdgeById("e4"),
                         edge("e6", "d", "out", "c", "a")>>)}

RunAny(payload, seed) ==
    /\ steps < MaxLoads
    /\ result' = run(payload, seed)
    /\ call' = [name |-> "run", abort_at |-> 0, payload |-> payload]
    /\ walk' = NoWalk
    /\ steps' = steps + 1
    /\ UNCHANGED graph_vars

\* The payloads handed to run: every snapshot above, well-formed.
RunPayloads == {SnapshotPayload(snapshot) : snapshot \in RunSnapshots}

NextRun ==
    \/ \E payload \in RunPayloads : \E seed \in RunSeeds(payload) : RunAny(payload, seed)
    \/ \E snapshot \in Snapshots : LoadSnapshot(snapshot)

SpecRun == Init /\ [][NextRun]_vars

\* C15: determinism of run. Whatever was called before, run(S) leaves the
\* engine untouched and returns the values map that run(S) returns under
\* every seeding order of the zero-in-degree nodes.
C15_RunDeterministic ==
    [][call'.name = "run" =>
          /\ UNCHANGED graph_vars
          /\ \A seed \in RunSeeds(call'.payload) :
                run(call'.payload, seed).values = result'.values]_vars

\* A run, after earlier calls, of the snapshot in which c adds d and the
\* negation of a: a and d can be seeded in either order.
C15_Witness ==
    /\ call.name = "run"
    /\ steps > 1
    /\ Cardinality(RunSeeds(call.payload)) > 1
    /\ {"a", "b", "c", "d"} \subseteq DOMAIN result.values
    /\ result.values["c"] = Scalar(F(1))

\* ------------------------------------------------------------------------
\* Manual values and overrides
\* ------------------------------------------------------------------------

\* Node data of the add node c: manualValues.a absent, a number or a string;
\* portOverrides.a absent, true, false or a number; manualValues.b absent or
\* a number.
ManualData ==
    {[manualValues |-> ma @@ mb, portOverrides |-> ov] :
        ma \in {EmptyMap, [a |-> JsonNumber(5)], [a |-> JsonString]},
        mb \in {EmptyMap, [b |-> JsonNumber(3)]},
        ov \in {EmptyMap, [a |-> JsonBool(TRUE)], [a |-> JsonBool(FALSE)],
                [a |-> JsonNumber(1)]}}

\* a = 1 feeding port a of c, or not.
ManualSnapshots ==
    {Snapshot(<<num_node("a", 1), [id |-> "c", block_type |-> "add", data |-> data]>>, es) :
        data \in ManualData, es \in {<<>>, <<EdgeById("e1")>>}}

ManualPayloads == {SnapshotPayload(snapshot) : snapshot \in ManualSnapshots}

NextManual ==
    \/ \E payload \in ManualPayloads : \E seed \in RunSeeds(payload) : RunAny(payload, seed)
    \/ \E snapshot \in ManualSnapshots : LoadSnapshot(snapshot)
    \/ \E u \in SetInputUniverse : SetInput(u[1], u[2], u[3])
    \/ \E abort_at \in 0..MaxAbort : \E seed \in EvalSeeds(G) : EvaluateDirty(abort_at, seed)

SpecManual == Init /\ [][NextManual]_vars

Ports == {"a", "b"}

ManualIsNumber(data, p) ==
    /\ "manualValues" \in DOMAIN data
    /\ p \in DOMAIN data["manualValues"]
    /\ data["manualValues"][p].json = "number"

OverrideIsTrue(data, p) ==
    /\ "portOverrides" \in DOMAIN data
    /\ p \in DOMAIN data["portOverrides"]
    /\ data["portOverrides"][p] = JsonBool(TRUE)

ManualValue(data, p) == Scalar(F(data["manualValues"][p].n))

\* The ports resolved by the rule as the claim states it: a port is absent
\* unless one of the three cases applies.
PortsAsStated(supplied, data) ==
    {p \in Ports :
        \/ p \in DOMAIN supplied /\ ~OverrideIsTrue(data, p)
        \/ p \in DOMAIN supplied /\ OverrideIsTrue(data, p) /\ ManualIsNumber(data, p)
        \/ p \notin DOMAIN supplied /\ ManualIsNumber(data, p)}

RuleAsStated(supplied, data) ==
    [p \in PortsAsStated(supplied, data) |->
        IF p \in DOMAIN supplied /\ ~OverrideIsTrue(data, p) THEN supplied[p]
        ELSE ManualValue(data, p)]

\* The rule with the edge value kept when the override is on but the manual
\* value is not a number.
RuleAmended(supplied, data) ==
    [p \in {q \in Ports : q \in DOMAIN supplied \/ ManualIsNumber(data, q)} |->
        IF p \in DOMAIN supplied /\ ~(OverrideIsTrue(data, p) /\ ManualIsNumber(data, p))
        THEN supplied[p]
        ELSE ManualValue(data, p)]

\* What the in-edges of n supply, in the persistent engine and in a run.
SuppliedNow(n) ==
    GatherInputs(EmptyMap, IF n \in DOMAIN in_adj THEN in_adj[n] ELSE <<>>, values)

SuppliedInRun(n) ==
    GatherInputs(EmptyMap,
                 IF n \in DOMAIN EvalInEdges(call.payload.snapshot)
                 THEN EvalInEdges(call.payload.snapshot)[n] ELSE <<>>,
                 result.values)

\* C16 (as stated): manual values and overrides. Both evaluators resolve
\* each port of a node to the edge value when an edge supplies one and the
\* override is not true, to the manual value when it is a number and either
\* the override is true or no edge supplies a value, and leave the port
\* absent otherwise.
C16_ManualRuleAsStated ==
    /\ \A n \in DOMAIN nodes :
          NodeInputs(G, n, values) = RuleAsStated(SuppliedNow(n), nodes[n].data)
    /\ call.name = "run" =>
          \A n \in DOMAIN result.values :
             LET node == NodeMap(call.payload.snapshot)[n]
             IN  result.values[n] =
                    evaluate_node(node.block_type,
                                  RuleAsStated(SuppliedInRun(n), node.data), node.data)

\* C16 (amended): the same with a port that an edge supplies keeping the edge
\* value when the override is true and the manual value is not a number.
C16_ManualRule ==
    /\ \A n \in DOMAIN nodes :
          NodeInputs(G, n, values) = RuleAmended(SuppliedNow(n), nodes[n].data)
    /\ call.name = "run" =>
          \A n \in DOMAIN result.values :
             LET node == NodeMap(call.payload.snapshot)[n]
             IN  result.values[n] =
                    evaluate_node(node.block_type,
                                  RuleAmended(SuppliedInRun(n), node.data), node.data)

\* The engine has evaluated c with port a overridden by the manual value 5
\* over the edge value 1, and port b taken from the manual value 3.
C16_Witness ==
    /\ call.name = "evaluate_dirty"
    /\ "c" \in DOMAIN nodes
    /\ "e1" \in DOMAIN edges
    /\ OverrideIsTrue(nodes["c"].data, "a")
    /\ ManualIsNumber(nodes["c"].data, "a")
    /\ "c" \in DOMAIN values
    /\ values["c"] = Scalar(F(8))

\* ------------------------------------------------------------------------
\* Operations on error inputs
\* ------------------------------------------------------------------------

\* The input ports of an op, in the order the catalog declares them.
PortOrder(block_type) ==
    CASE block_type = "add" -> <<"a", "b">>
      [] block_type = "negate" -> <<"a">>
      [] block_type = "clamp" -> <<"val", "min", "max">>
      [] block_type = "ifthenelse" -> <<"cond", "then", "else">>
      [] block_type = "display" -> <<"value">>
      [] block_type = "eng.mechanics.potential_energy" -> <<"m", "g", "h">>
      [] OTHER -> <<>>

OpTypes ==
    {"add", "negate", "clamp", "ifthenelse", "display", "eng.mechanics.potential_energy"}

\* What can feed a port: nothing, the number a, or one of two nodes whose
\* op id is not in the dispatch table (each evaluates to its own error).
SourceNodes ==
    <<num_node("a", 1), op_node("b", "bogus"), op_node("d", "bogus2")>>

Sources == {"none", "a", "b", "d"}

\* The snapshot in which port ports[i] of the node c of type block_type is
\* fed by feed[i]; only the sources in use are nodes of the snapshot.
OpSnapshot(block_type, feed) ==
    LET ports == PortOrder(block_type)
        wired == SelectSeq([i \in 1..Len(ports) |-> [port |-> ports[i], src |-> feed[i]]],
                           LAMBDA w : w.src # "none")
    IN  Snapshot(SelectSeq(SourceNodes, LAMBDA n : n.id \in Range(feed))
                    \o <<op_node("c", block_type)>>,
                 [i \in 1..Len(wired) |->
                     edge("e_" \o wired[i].port, wired[i].src, "out", "c", wired[i].port)])

ErrorSnapshots ==
    UNION {{OpSnapshot(t, feed) : feed \in [1..Len(PortOrder(t)) -> Sources]} : t \in OpTypes}

RunOnce(payload, seed) ==
    /\ steps < MaxRuns
    /\ result' = run(payload, seed)
    /\ call' = [name |-> "run", abort_at |-> 0, payload |-> payload]
    /\ walk' = NoWalk
    /\ steps' = steps + 1
    /\ UNCHANGED graph_vars

ErrorPayloads == {SnapshotPayload(snapshot) : snapshot \in ErrorSnapshots}

NextOps ==
    \E payload \in ErrorPayloads : \E seed \in RunSeeds(payload) : RunOnce(payload, seed)

SpecOps == Init /\ [][NextOps]_vars

\* The inputs the stateless evaluator resolved for node n of the run.
InputsInRun(n) ==
    ApplyManuals(SuppliedInRun(n), NodeMap(call.payload.snapshot)[n].data)

\* The positions, in declaration order, of the ports of block_type that hold
\* an error in inputs.
ErrorPorts(block_type, inputs) ==
    {i \in 1..Len(PortOrder(block_type)) :
        /\ PortOrder(block_type)[i] \in DOMAIN inputs
        /\ inputs[PortOrder(block_type)[i]].kind = "error"}

FirstErrorPort(block_type, inputs) ==
    PortOrder(block_type)[CHOOSE i \in ErrorPorts(block_type, inputs) :
                             \A j \in ErrorPorts(block_type, inputs) : i <= j]

\* C17: error propagation. Every evaluated node one of whose consumed ports
\* holds an error evaluates to an error carrying the message of the first
\* such port in declaration order, whatever the op family.
C17_ErrorPropagates ==
    call.name = "run" =>
       \A n \in DOMAIN result.values :
          LET block_type == NodeMap(call.payload.snapshot)[n].block_type
          IN  ErrorPorts(block_type, InputsInRun(n)) # {} =>
                 result.values[n] =
                    Error(InputsInRun(n)[FirstErrorPort(block_type, InputsInRun(n))].message)

\* The op ids with an arm in the dispatch of evaluate_node_inner.
KnownOps == {"number", "slider"} \cup OpTypes

\* C18: UNKNOWN_BLOCK diagnostics. In the result of a run every evaluated
\* node whose op id is not in the dispatch table has exactly one
\* UNKNOWN_BLOCK warning, and a node whose op id is known has none, also when
\* its output is the error of an unknown-op ancestor.
C18_UnknownBlockExact ==
    call.name = "run" =>
       \A n \in DOMAIN result.values :
          DiagCount(result.diagnostics, "UNKNOWN_BLOCK", n) =
             IF NodeMap(call.payload.snapshot)[n].block_type \in KnownOps THEN 0 ELSE 1

\* The edge endpoints of a snapshot that are not nodes of it, as pairs of an
\* edge position and the end.
DanglingEndpoints(snapshot) ==
    {<<i, "source">> : i \in {j \in 1..Len(snapshot.edges) :
                                snapshot.edges[j].source \notin SnapshotNodeIds(snapshot)}}
    \cup
    {<<i, "target">> : i \in {j \in 1..Len(snapshot.edges) :
                                snapshot.edges[j].target \notin SnapshotNodeIds(snapshot)}}

\* C19: dangling-edge diagnostics are returned. The result of a successful
\* load holds exactly one DANGLING_EDGE diagnostic of level error for each
\* edge endpoint that is not a node of the snapshot.
C19_DanglingEdgeReturned ==
    (call.name = "run_load_snapshot" /\ result.kind = "EvalResult") =>
       Cardinality({i \in 1..Len(result.diagnostics) :
                       /\ result.diagnostics[i].code = "DANGLING_EDGE"
                       /\ result.diagnostics[i].level = "error"})
          = Cardinality(DanglingEndpoints(call.payload.snapshot))

C21_CallbackProtocol ==
    [][call'.name = "evaluate_dirty" =>
          LET log == walk'.progress
          IN  /\ Len(log) = Len(walk'.evaluated)
              /\ Len(log) = result'.evaluated_count
              /\ \A i \in 1..Len(log) :
                    /\ log[i].node_id = walk'.evaluated[i]
                    /\ log[i].evaluated_count = i
                    /\ log[i].dirty_count = Cardinality(dirty)
                    /\ log[i].cached = <<result'.values[log[i].node_id]>>
                    /\ log[i].node_id \notin log[i].dirty
                    /\ log[i].node_id \in dirty \cap DOMAIN nodes
                    /\ log[i].node_id \notin walk'.pruned
                    /\ i < Len(log) => log[i + 1].dirty \subseteq log[i].dirty
                    /\ log[i].dirty \cap walk'.pruned
                          \subseteq UNION {{log[j].node_id} \cup (log[j - 1].dirty \ log[j].dirty)
                                              : j \in (i + 1)..Len(log)}
              /\ result'.partial => log[Len(log)].dirty = dirty']_vars

\* An evaluate_dirty call that was aborted at its second callback, after a
\* node was found unchanged and its successor pruned.
C21_Witness ==
    /\ call.name = "evaluate_dirty"
    /\ result.partial
    /\ Len(walk.progress) = 2
    /\ walk.pruned # {}

\* ------------------------------------------------------------------------
\* WASM boundary (engine-wasm): options, time budget and host callback
\* ------------------------------------------------------------------------

\* Entry-point calls explored at the WASM boundary.
MaxBudgetCalls == 2

OptionsPayload(opts) == [wellformed |-> TRUE, opts |-> opts]

\* serde_json::from_str::<EvalOptions>
ParseOptions(payload) ==
    IF payload.wellformed THEN [ok |-> TRUE, opts |-> payload.opts]
    ELSE [ok |-> FALSE, opts |-> DefaultOptions]

\* Variant of the closure that calls the host before it looks at the budget.
budget_callback_after_host(budget_ms, clock, i) ==
    IF budget_ms > 0 /\ clock[i] >= budget_ms
    THEN [signal |-> "Abort", host_called |-> TRUE]
    ELSE [signal |-> "Continue", host_called |-> TRUE]

\* The closure the wrapper hands to the engine, at its i-th invocation;
\* clock[i] is Date::now() - start as read by that invocation.  The value the
\* host callback returns is discarded.
budget_callback(budget_ms, clock, i) ==
    IF budget_ms > 0 /\ clock[i] >= budget_ms
    THEN [signal |-> "Abort", host_called |-> FALSE]
    ELSE [signal |-> "Continue", host_called |-> TRUE]

\* The invocation at which the closure first returns Abort (0: never).
FirstAbort(budget_ms, clock) ==
    LET aborts == {i \in 1..Len(clock) :
                      budget_callback(budget_ms, clock, i).signal = "Abort"}
    IN  IF aborts = {} THEN 0 ELSE CHOOSE i \in aborts : \A j \in aborts : i <= j

\* The calls cb.call2(evaluated, total) made during a walk whose closure
\* invocations are progress.
HostCalls(budget_ms, clock, progress) ==
    LET called == SelectSeq([i \in 1..Len(progress) |-> i],
                            LAMBDA i : budget_callback(budget_ms, clock, i).host_called)
    IN  [k \in 1..Len(called) |->
            <<progress[called[k]].evaluated_count, progress[called[k]].dirty_count>>]

WithHost(outcome, budget_ms, clock) ==
    [graph |-> outcome.graph, result |-> outcome.result, evaluated |-> outcome.evaluated,
     pruned |-> outcome.pruned, progress |-> outcome.progress,
     host |-> HostCalls(budget_ms, clock, outcome.progress)]

\* load_snapshot_with_options of the WASM boundary
load_snapshot_with_options(g, snapshot_json, options_json, clock, seed) ==
    LET parsed == ParseOptions(options_json)
        budget_ms == parsed.opts.time_budget_ms
    IN  IF ~parsed.ok THEN WithHost(Rejected(g, "INVALID_OPTIONS"), 0, clock)
        ELSE WithHost(run_load_snapshot(g, snapshot_json, parsed.opts,
                                        FirstAbort(budget_ms, clock), seed),
                      budget_ms, clock)

\* apply_patch_with_options of the WASM boundary
apply_patch_with_options(g, patch_json, options_json, clock, seed) ==
    LET parsed == ParseOptions(options_json)
        budget_ms == parsed.opts.time_budget_ms
    IN  IF ~parsed.ok THEN WithHost(Rejected(g, "INVALID_OPTIONS"), 0, clock)
        ELSE WithHost(run_patch(g, patch_json, parsed.opts,
                                FirstAbort(budget_ms, clock), seed),
                      budget_ms, clock)

\* Options: unparsable, the default (no budget), and a budget of 2 ms.
BudgetOptions ==
    {Malformed, OptionsPayload(DefaultOptions),
     OptionsPayload([DefaultOptions EXCEPT !.time_budget_ms = 2])}

\* Elapsed milliseconds read at the first, second and third suspension point:
\* always under the budget of 2, reaching it at the second point, exceeding
\* it at the third, and exceeding it from the start.
Clocks == {<<1, 1, 1>>, <<1, 2, 2>>, <<1, 1, 3>>, <<3, 3, 3>>}

BudgetPatches ==
    {PatchPayload(<<o>>) : o \in UpdateOps \cup {[op |-> "removeNode", nodeId |-> "b"]}}
    \cup {Malformed}

CommitWithHost(r, name, payload, options_json, clock) ==
    /\ Commit(r)
    /\ call' = [name |-> name, abort_at |-> 0, payload |-> payload,
                options |-> options_json, clock |-> clock, host |-> r.host]

LoadSnapshotWithOptions(snapshot_json, options_json, clock, seed) ==
    /\ steps < MaxBudgetCalls
    /\ CommitWithHost(load_snapshot_with_options(G, snapshot_json, options_json, clock, seed),
                      "load_snapshot_with_options", snapshot_json, options_json, clock)
    /\ steps' = steps + 1

ApplyPatchWithOptions(patch_json, options_json, clock, seed) ==
    /\ steps < MaxBudgetCalls
    /\ CommitWithHost(apply_patch_with_options(G, patch_json, options_json, clock, seed),
                      "apply_patch_with_options", patch_json, options_json, clock)
    /\ steps' = steps + 1

NextBudget ==
    \/ \E snapshot_json \in LoadPayloads : \E options_json \in BudgetOptions :
          \E clock \in Clocks : \E seed \in LoadSeeds(G, snapshot_json) :
             LoadSnapshotWithOptions(snapshot_json, options_json, clock, seed)
    \/ \E patch_json \in BudgetPatches : \E options_json \in BudgetOptions :
          \E clock \in Clocks : \E seed \in PatchSeeds(G, patch_json) :
             ApplyPatchWithOptions(patch_json, options_json, clock, seed)

SpecBudget == Init /\ [][NextBudget]_vars

\* The call being made is one of the two wrappers, with options that parse.
BudgetCall ==
    /\ call'.name \in {"load_snapshot_with_options", "apply_patch_with_options"}
    /\ call'.options.wellformed

\* The ids dirty when the evaluation inside the wrapper starts.
DirtyAtEntry ==
    IF result'.kind = "EngineError" THEN dirty
    ELSE IF call'.name = "load_snapshot_with_options"
    THEN load_snapshot(G, call'.payload.snapshot).dirty
    ELSE apply_patch(G, call'.payload.ops).dirty

\* C22: time-budget wrapper. At every suspension point of the two wrappers
\* the budget is looked at before the host callback: with a budget above 0
\* and an elapsed time that exceeds it, the closure aborts there without
\* calling the host, the result is partial and every dirty node not yet
\* evaluated or pruned stays dirty; the host is called, with the closure's
\* arguments, at every other suspension point that does not abort; with a
\* budget of 0 the call is never partial and the host is called every time.
C22_TimeBudget ==
    [][BudgetCall =>
          LET budget_ms == call'.options.opts.time_budget_ms
              log == walk'.progress
              host == call'.host
          IN  /\ \A i \in 1..Len(log) :
                    /\ (budget_ms > 0 /\ call'.clock[i] > budget_ms) =>
                          /\ i = Len(log)
                          /\ result'.partial
                          /\ Len(host) = i - 1
                          /\ (DirtyAtEntry \cap DOMAIN nodes')
                                \ (Range(walk'.evaluated) \cup walk'.pruned)
                                \subseteq dirty'
                    /\ (i < Len(log) \/ ~result'.partial) =>
                          /\ i <= Len(host)
                          /\ host[i] = <<log[i].evaluated_count, log[i].dirty_count>>
              /\ Len(host) <= Len(log)
              /\ budget_ms = 0 => ~result'.partial /\ Len(host) = Len(log)]_vars

\* A load under a budget of 2 ms whose second suspension point finds the
\* budget used up: one host call was made and nodes are left dirty.
C22_Witness ==
    /\ call.name = "load_snapshot_with_options"
    /\ call.options.wellformed
    /\ call.options.opts.time_budget_ms > 0
    /\ result.partial
    /\ Len(walk.progress) = 2
    /\ Len(call.host) = 1
    /\ dirty \cap DOMAIN nodes # {}

\* ------------------------------------------------------------------------
\* Stability of the topological order
\* ------------------------------------------------------------------------

\* Calls made before the data-only mutations whose effect on the order is
\* examined.
MaxTopoCalls == 3

NextTopo ==
    \/ \E snapshot \in Snapshots : steps < MaxTopoCalls /\ LoadSnapshot(snapshot)
    \/ \E o \in PatchOps : steps < MaxTopoCalls /\ ApplyPatch(<<o>>)
    \/ \E u \in SetInputUniverse : steps < MaxTopoCalls /\ SetInput(u[1], u[2], u[3])
    \/ \E abort_at \in 0..MaxAbort : \E seed \in EvalSeeds(G) :
          steps < MaxTopoCalls /\ EvaluateDirty(abort_at, seed)

SpecTopo == Init /\ [][NextTopo]_vars

\* The mutations that change data only: UpdateNodeData patches and set_input
\* calls.
DataOps ==
    {[kind |-> "apply_patch", op |-> o, input |-> <<>>] : o \in UpdateOps}
    \cup {[kind |-> "set_input", op |-> <<>>, input |-> u] : u \in SetInputUniverse}

\* Runs of at most two of them.
DataOpRuns == {<<>>} \cup {<<d>> : d \in DataOps} \cup {<<d1, d2>> : d1 \in DataOps, d2 \in DataOps}

ApplyDataOp(g, d) ==
    IF d.kind = "apply_patch" THEN apply_patch(g, <<d.op>>)
    ELSE set_input(g, d.input[1], d.input[2], d.input[3])

RECURSIVE ApplyDataOps(_, _)
ApplyDataOps(g, ds) ==
    IF ds = <<>> THEN g ELSE ApplyDataOps(ApplyDataOp(g, Head(ds)), Tail(ds))

\* The ids of seq appear in the order they have in order.
InOrderOf(seq, order) ==
    \A i \in 1..Len(seq) : \A j \in (i + 1)..Len(seq) :
        IndexOf(order, seq[i]) < IndexOf(order, seq[j])

\* g2 is g after data-only mutations: the flag is still down, the cached
\* order is the one of g, and the next evaluate_dirty, whatever seeding a
\* rebuild would use and wherever the callback aborts, keeps and walks it
\* and reports no cycle again.
SameOrderWalked(g, g2) ==
    /\ ~g2.topo_dirty
    /\ g2.topo_order = g.topo_order
    /\ DOMAIN g2.nodes = DOMAIN g.nodes
    /\ g2.edges = g.edges
    /\ \A seed \in SeedOrders(InDegree(g2)) : \A abort_at \in 0..MaxAbort :
          LET ev == evaluate_dirty_with_callback(g2, DefaultOptions, abort_at, seed)
          IN  /\ ev.graph.topo_order = g.topo_order
              /\ ~ev.graph.topo_dirty
              /\ InOrderOf(ev.evaluated, g.topo_order)
              /\ \A i \in 1..Len(ev.result.diagnostics) :
                    ev.result.diagnostics[i].code # "CYCLE_DETECTED"

\* C23: stable topological order. Right after an evaluate_dirty call
\* topo_dirty is false, and after any run of UpdateNodeData and set_input
\* operations it still is, the cached order is unchanged, and the next
\* evaluate_dirty does not rebuild: it keeps and walks the same topo_order.
\* No mutation rebuilds by itself: loads and patches leave topo_order as it
\* was, so a run of structural mutations is followed by one rebuild, in the
\* next evaluate_dirty.
C23_StableTopoOrder ==
    /\ call.name = "evaluate_dirty" =>
          /\ ~topo_dirty
          /\ \A ops \in DataOpRuns : SameOrderWalked(G, ApplyDataOps(G, ops))
    /\ \A o \in PatchOps :
          FreshEdgeIds(G, <<o>>) => apply_patch(G, <<o>>).topo_order = topo_order
    /\ \A snapshot \in Snapshots : load_snapshot(G, snapshot).topo_order = topo_order

\* After an evaluate_dirty call on a graph with two roots (a rebuild could
\* order them either way), a run of data-only mutations after which the next
\* call evaluates at least two nodes.
C23_Witness ==
    /\ call.name = "evaluate_dirty"
    /\ dirty = {}
    /\ Cardinality(SeedOrders(InDegree(G))) > 1
    /\ \E ops \in DataOpRuns :
          Len(evaluate_dirty_with_callback(ApplyDataOps(G, ops), DefaultOptions,
                                           0, <<>>).evaluated) >= 2

\* ------------------------------------------------------------------------
\* set_input
\* ------------------------------------------------------------------------

\* Calls explored around set_input.
MaxInputCalls == 3

\* Data of the add node c: no manualValues; an entry for a beside a
\* portOverrides key; an entry for b; a manualValues payload that is not an
\* object.
InputData ==
    {EmptyMap,
     [manualValues |-> [a |-> JsonNumber(5)], portOverrides |-> [a |-> JsonBool(TRUE)]],
     [manualValues |-> [b |-> JsonNumber(3)]],
     [manualValues |-> JsonString]}

\* a = 1 and b = -a feed c = a + b, or only a does.
InputSnapshots ==
    {Snapshot(<<num_node("a", 1), op_node("b", "negate"),
                [id |-> "c", block_type |-> "add", data |-> data]>>, es) :
        data \in InputData,
        es \in {<<EdgeById("e1")>>, <<EdgeById("e4"), EdgeById("e2")>>}}

\* The set_input calls: both ports of c, a port of b, and a node that does
\* not exist.
InputUniverse ==
    {<<"c", "a", 1>>, <<"c", "a", 2>>, <<"c", "b", 1>>, <<"b", "a", 2>>, <<"z", "a", 1>>}

NextInput ==
    \/ \E snapshot \in InputSnapshots : steps < MaxInputCalls /\ LoadSnapshot(snapshot)
    \/ \E u \in InputUniverse : steps < MaxInputCalls /\ SetInput(u[1], u[2], u[3])
    \/ \E abort_at \in 0..MaxAbort : \E seed \in EvalSeeds(G) :
          steps < MaxInputCalls /\ EvaluateDirty(abort_at, seed)

SpecInput == Init /\ [][NextInput]_vars

\* manualValues of data is absent or an object, as the data model has it.
ManualsWellTyped(data) ==
    "manualValues" \in DOMAIN data => as_object(data["manualValues"]) # <<>>

\* data2 is data with manualValues[p] = v merged in and nothing else changed.
MergedInto(data, data2, p, v) ==
    /\ DOMAIN data2 = DOMAIN data \cup {"manualValues"}
    /\ \A k \in DOMAIN data : k # "manualValues" => data2[k] = data[k]
    /\ DOMAIN data2["manualValues"] = DOMAIN ObjectAt(data, "manualValues") \cup {p}
    /\ data2["manualValues"][p] = JsonNumber(v)
    /\ \A q \in DOMAIN ObjectAt(data, "manualValues") :
          q # p => data2["manualValues"][q] = data["manualValues"][q]

\* What set_input(n, p, v) makes of g, as g2.
SetInputEffect(g, g2, n, p, v) ==
    IF n \in DOMAIN g.nodes
    THEN /\ ManualsWellTyped(g.nodes[n].data) =>
               MergedInto(g.nodes[n].data, g2.nodes[n].data, p, v)
         /\ DOMAIN g2.nodes = DOMAIN g.nodes
         /\ \A m \in DOMAIN g.nodes :
               /\ g2.nodes[m].id = g.nodes[m].id
               /\ g2.nodes[m].block_type = g.nodes[m].block_type
               /\ m # n => g2.nodes[m] = g.nodes[m]
         /\ g.dirty \subseteq g2.dirty
         /\ DownstreamDirty(g2, {n})
         /\ g2.edges = g.edges /\ g2.out_adj = g.out_adj /\ g2.in_adj = g.in_adj
         /\ g2.values = g.values /\ g2.topo_dirty = g.topo_dirty
         /\ g2.topo_order = g.topo_order /\ g2.datasets = g.datasets
    ELSE g2 = g

MaxKindCalls == 2

data_node(id, block_type, data) == [id |-> id, block_type |-> block_type, data |-> data]

\* tableData of two columns and two rows, holding -0.0 and a cell that is
\* not a number.
RectTableData ==
    [columns |-> JsonArray(<<JsonStr("A"), JsonStr("B")>>),
     rows |-> JsonArray(<<JsonArray(<<JsonNumber(1), JsonNegZero>>),
                          JsonArray(<<JsonString, JsonNumber(2)>>)>>)]

\* tableData whose rows do not have one entry per column name: one name (the
\* second entry of columns is not a string), a row of two cells, a row of
\* one cell, and a row that is not an array.
RaggedTableData ==
    [columns |-> JsonArray(<<JsonStr("A"), JsonNumber(7)>>),
     rows |-> JsonArray(<<JsonArray(<<JsonNumber(1), JsonNegZero>>),
                          JsonArray(<<JsonNumber(2)>>),
                          JsonString>>)]

\* What can feed a port of c: nothing, a number, a vector from node data, a
\* vector from the dataset registry, a table, a table from ragged data, and
\* two nodes that evaluate to errors with different messages.
KindSources == {"none", "num", "vec", "ds", "tab", "rag", "csv", "bogus"}

SourceNode(id, kind) ==
    CASE kind = "num" -> num_node(id, 1)
      [] kind = "vec" ->
            data_node(id, "vectorInput",
                      [vectorData |-> JsonArray(<<JsonNumber(1), JsonNegZero, JsonString>>)])
      [] kind = "ds" -> data_node(id, "vectorInput", [datasetRef |-> JsonStr("ds1")])
      [] kind = "tab" -> data_node(id, "tableInput", [tableData |-> RectTableData])
      [] kind = "rag" -> data_node(id, "tableInput", [tableData |-> RaggedTableData])
      [] kind = "csv" -> op_node(id, "csvImport")
      [] kind = "bogus" -> op_node(id, "bogus")

\* The two ports of each op that the sources a and b are wired to.
KindPorts(block_type) ==
    CASE block_type \in {"add", "tableJoin"} -> <<"a", "b">>
      [] block_type = "tableAddColumn" -> <<"table", "vec">>
      [] block_type = "tableFilter" -> <<"table", "threshold">>
      [] block_type = "tableSort" -> <<"table", "col">>
      [] block_type = "negate" -> <<"a", "unused">>
      [] block_type = "display" -> <<"value", "unused">>

\* The node c of the op: a display carries the manual value -0.0 for its
\* port, read when no edge supplies one.
KindOpNode(block_type) ==
    IF block_type = "display"
    THEN data_node("c", "display", [manualValues |-> [value |-> JsonNegZero]])
    ELSE op_node("c", block_type)

KindSnapshot(block_type, ka, kb) ==
    Snapshot((IF ka = "none" THEN <<>> ELSE <<SourceNode("a", ka)>>)
                \o (IF kb = "none" THEN <<>> ELSE <<SourceNode("b", kb)>>)
                \o <<KindOpNode(block_type)>>,
             (IF ka = "none" THEN <<>>
              ELSE <<edge("e_a", "a", "out", "c", KindPorts(block_type)[1])>>)
                \o (IF kb = "none" THEN <<>>
                    ELSE <<edge("e_b", "b", "out", "c", KindPorts(block_type)[2])>>))

\* The wirings explored: every pair of sources into add, every source into
\* negate and display, and the sources that matter to each table op.
KindWirings ==
    ({"add"} \X KindSources \X KindSources)
    \cup ({"negate", "display"} \X KindSources \X {"none"})
    \cup ({"tableJoin"} \X {"tab", "rag", "csv", "none"} \X {"tab", "rag"})
    \cup ({"tableAddColumn"} \X {"tab", "rag", "num"} \X {"vec", "ds", "none"})
    \cup ({"tableFilter"} \X {"tab", "rag", "vec"} \X {"num", "none"})
    \cup ({"tableSort"} \X {"tab", "rag"} \X {"num", "none"})

KindPayloads == {SnapshotPayload(KindSnapshot(w[1], w[2], w[3])) : w \in KindWirings}

\* Arrays the host registers: Float64Array contents are arbitrary bit
\* patterns, among them -0.0 and a NaN that is not the canonical one.
KindDatasets == {<<NegZero, FNeg(NaN), F(2)>>}

NextKinds ==
    \/ \E id \in DatasetIds : \E data \in KindDatasets :
          steps < MaxKindCalls /\ RegisterDataset(id, data)
    \/ \E payload \in KindPayloads : \E seed \in LoadSeeds(G, payload) :
          steps < MaxKindCalls /\ RunLoadSnapshot(payload, seed)

SpecKinds == Init /\ [][NextKinds]_vars

\* A float that canonicalization leaves alone: not negative zero, and no NaN
\* but the canonical one.
CanonicalFloat(x) == ~x.neg /\ (x.nan => x = NaN)

CanonicalValue(v) ==
    CASE v.kind = "scalar" -> CanonicalFloat(v.value)
      [] v.kind = "vector" -> \A i \in 1..Len(v.value) : CanonicalFloat(v.value[i])
      [] v.kind = "table" ->
            \A i \in 1..Len(v.rows) : \A j \in 1..Len(v.rows[i]) :
               CanonicalFloat(v.rows[i][j])
      [] OTHER -> TRUE

\* What the op of node n computes from the inputs the engine resolves for
\* it, before and after canonicalization.
RawValue(n) ==
    evaluate_node_inner(nodes[n].block_type, NodeInputs(G, n, values), nodes[n].data,
                        datasets)

ReturnedValue(n) ==
    evaluate_node_with_datasets(nodes[n].block_type, NodeInputs(G, n, values),
                                nodes[n].data, datasets)

\* C25: canonical floats. Every Value that evaluate_node /
\* evaluate_node_with_datasets returns, hence every Value in values and in
\* a result, holds no negative zero and no NaN other than the canonical
\* one, in its scalar slot, in every vector element and in every table
\* cell, whatever the op (pass-through ops and data sources included).
C25_CanonicalFloats ==
    /\ \A n \in DOMAIN values : CanonicalValue(values[n])
    /\ \A n \in DOMAIN result.values : CanonicalValue(result.values[n])
    /\ \A n \in DOMAIN nodes : CanonicalValue(ReturnedValue(n))

\* The engine holds a vector and a table whose ops produced a negative zero
\* or a non-canonical NaN that the stored values do not have.
C25_Witness ==
    /\ call.name = "run_load_snapshot"
    /\ \E n \in DOMAIN values :
          values[n].kind = "vector" /\ ~CanonicalValue(RawValue(n))
    /\ \E n \in DOMAIN values :
          values[n].kind = "table" /\ ~CanonicalValue(RawValue(n))

Rectangular(v) ==
    v.kind = "table" => \A i \in 1..Len(v.rows) : Len(v.rows[i]) = Len(v.columns)

\* C26 (as stated): rectangular tables. Every Table value the engine
\* produces (tableInput / csvImport from node data, the table ops filter,
\* sort, add-column and join, unary and binary broadcasting over tables)
\* has exactly len(columns) entries in every row.
C26_RectangularTables ==
    /\ \A n \in DOMAIN values : Rectangular(values[n])
    /\ \A n \in DOMAIN result.values : Rectangular(result.values[n])

\* ------------------------------------------------------------------------
\* The broadcasting matrix
\* ------------------------------------------------------------------------

\* The operand on a port as the matrix sees it: an absent operand is the
\* scalar NaN.
Operand(inputs, port) == IF port \in DOMAIN inputs THEN inputs[port] ELSE Scalar(NaN)

\* Shape of a table: number of column names and number of rows.
Shape(t) == <<Len(t.columns), Len(t.rows)>>

\* The row lengths of a table, row by row.
RowLens(t) == [i \in 1..Len(t.rows) |-> Len(t.rows[i])]

\* The matrix, for operands a and b (neither absent) and result r.
Matrix(a, b, r) ==
    CASE a.kind = "error" -> r = Error(a.message)
      [] a.kind # "error" /\ b.kind = "error" -> r = Error(b.message)
      [] a.kind = "scalar" /\ b.kind = "scalar" -> r.kind = "scalar"
      [] a.kind = "scalar" /\ b.kind = "vector" ->
            r.kind = "vector" /\ Len(r.value) = Len(b.value)
      [] a.kind = "vector" /\ b.kind = "scalar" ->
            r.kind = "vector" /\ Len(r.value) = Len(a.value)
      [] a.kind = "vector" /\ b.kind = "vector" ->
            IF Len(a.value) = Len(b.value)
            THEN r.kind = "vector" /\ Len(r.value) = Len(a.value)
            ELSE r.kind = "error"
      [] a.kind = "scalar" /\ b.kind = "table" ->
            r.kind = "table" /\ Shape(r) = Shape(b) /\ RowLens(r) = RowLens(b)
      [] a.kind = "table" /\ b.kind = "scalar" ->
            r.kind = "table" /\ Shape(r) = Shape(a) /\ RowLens(r) = RowLens(a)
      [] a.kind = "table" /\ b.kind = "table" ->
            IF Shape(a) = Shape(b) THEN r.kind = "table" /\ Shape(r) = Shape(a)
            ELSE r.kind = "error"
      [] a.kind = "vector" /\ b.kind = "table" -> r.kind = "error"
      [] a.kind = "table" /\ b.kind = "vector" -> r.kind = "error"

MaxRegistryCalls == 4

dataset_count(g) == Cardinality(DOMAIN g.datasets)

\* self.datasets.values().map(|v| v.len() * 8).sum()
RECURSIVE SumBytes(_, _)
SumBytes(ds, ids) ==
    IF ids = {} THEN 0
    ELSE LET id == CHOOSE x \in ids : TRUE
         IN  Len(ds[id]) * 8 + SumBytes(ds, ids \ {id})

dataset_total_bytes(g) == SumBytes(g.datasets, DOMAIN g.datasets)

RegistryIds == {"ds1", "ds2"}

RegistryArrays == {<<>>, <<F(1)>>, <<F(2)>>, <<F(1), F(2)>>}

NextRegistry ==
    \/ \E id \in RegistryIds : \E data \in RegistryArrays :
          steps < MaxRegistryCalls /\ RegisterDataset(id, data)
    \/ \E id \in RegistryIds : steps < MaxRegistryCalls /\ ReleaseDataset(id)

SpecRegistry == Init /\ [][NextRegistry]_vars

\* What one call does to the two counters and to the registry.
RegistryStep ==
    /\ call'.name = "register_dataset" =>
          /\ datasets'[call'.id] = call'.data
          /\ \A id \in DOMAIN datasets \ {call'.id} :
                id \in DOMAIN datasets' /\ datasets'[id] = datasets[id]
          /\ dataset_count(GPrime) =
                dataset_count(G) + (IF call'.id \in DOMAIN datasets THEN 0 ELSE 1)
          /\ dataset_total_bytes(GPrime) =
                dataset_total_bytes(G) + 8 * Len(call'.data)
                   - (IF call'.id \in DOMAIN datasets THEN 8 * Len(datasets[call'.id])
                      ELSE 0)
    /\ call'.name = "release_dataset" =>
          IF call'.id \in DOMAIN datasets
          THEN /\ call'.id \notin DOMAIN datasets'
               /\ dataset_count(GPrime) = dataset_count(G) - 1
               /\ dataset_total_bytes(GPrime) =
                     dataset_total_bytes(G) - 8 * Len(datasets[call'.id])
          ELSE /\ datasets' = datasets
               /\ dataset_count(GPrime) = dataset_count(G)
               /\ dataset_total_bytes(GPrime) = dataset_total_bytes(G)

\* C28: dataset registry accounting. A new engine counts no dataset and no
\* byte, and every register_dataset / release_dataset call keeps
\* dataset_count equal to the number of ids registered and not since
\* released and dataset_total_bytes equal to 8 times the summed lengths of
\* the arrays currently registered: registering an id already present
\* replaces its array, releasing an id not present changes nothing.
C28_RegistryAccounting ==
    /\ dataset_count(G) = 0
    /\ dataset_total_bytes(G) = 0
    /\ [][RegistryStep]_vars

\* Two ids are registered, ds1 for the second time with a shorter array:
\* 2 datasets, 8 * (1 + 2) bytes.
C28_Witness ==
    /\ call.name = "register_dataset"
    /\ call.id = "ds1"
    /\ steps = 3
    /\ DOMAIN datasets = {"ds1", "ds2"}
    /\ datasets["ds1"] = <<F(1)>>
    /\ datasets["ds2"] = <<F(1), F(2)>>
    /\ dataset_count(G) = 2
    /\ dataset_total_bytes(G) = 24

\* ------------------------------------------------------------------------
\* Trace collection
\* ------------------------------------------------------------------------

MaxTraceCalls == 3

\* EvalOptions with the trace off or on, uncapped or capped at 0, 1 or 2.
TraceOptions ==
    {[trace |-> t, max_trace_nodes |-> m, time_budget_ms |-> 0] :
        t \in BOOLEAN, m \in {<<>>, <<0>>, <<1>>, <<2>>}}

EvaluateDirtyWithCallback(opts, abort_at, seed) ==
    /\ steps < MaxTraceCalls
    /\ Commit(IncOutcome(evaluate_dirty_with_callback(G, opts, abort_at, seed)))
    /\ call' = [name |-> "evaluate_dirty_with_callback", abort_at |-> abort_at,
                opts |-> opts]
    /\ steps' = steps + 1

NextTrace ==
    \/ \E snapshot \in Snapshots : steps < MaxTraceCalls /\ LoadSnapshot(snapshot)
    \/ \E u \in SetInputUniverse : steps < MaxTraceCalls /\ SetInput(u[1], u[2], u[3])
    \/ \E opts \in TraceOptions : \E abort_at \in 0..MaxAbort : \E seed \in EvalSeeds(G) :
          EvaluateDirtyWithCallback(opts, abort_at, seed)

SpecTrace == Init /\ [][NextTrace]_vars

\* The number of entries the claim gives the trace.
TraceLen(opts, evaluated_count) ==
    IF opts.max_trace_nodes = <<>> \/ evaluated_count <= opts.max_trace_nodes[1]
    THEN evaluated_count
    ELSE opts.max_trace_nodes[1]

\* The call just made left the graph, the count and the values that the
\* same call without a cap on the trace leaves.
SameAsUncapped ==
    \E seed \in EvalSeeds(G) :
       LET ref == evaluate_dirty_with_callback(
                     G, [call'.opts EXCEPT !.max_trace_nodes = <<>>], call'.abort_at, seed)
       IN  /\ GPrime = ref.graph
           /\ result'.evaluated_count = ref.result.evaluated_count
           /\ result'.values = ref.result.changed_values
           /\ result'.partial = ref.result.partial
           /\ walk'.evaluated = ref.evaluated

\* C29: trace collection. The trace of the result is absent iff
\* options.trace is false; when it is true the trace lists, in evaluation
\* order, the first min(evaluated_count, max_trace_nodes) evaluated nodes
\* (all of them when max_trace_nodes is unset), each with its node id and
\* its op id; reaching the cap drops the later entries and neither stops
\* the evaluation nor changes evaluated_count, values or dirty.
C29_TraceCollection ==
    [][call'.name = "evaluate_dirty_with_callback" =>
          /\ (result'.trace = <<>>) <=> ~call'.opts.trace
          /\ call'.opts.trace =>
                /\ Len(result'.trace[1]) = TraceLen(call'.opts, result'.evaluated_count)
                /\ \A i \in 1..Len(result'.trace[1]) :
                      /\ i <= Len(walk'.evaluated)
                      /\ result'.trace[1][i].node_id = walk'.evaluated[i]
                      /\ walk'.evaluated[i] \in DOMAIN nodes
                      /\ result'.trace[1][i].op_id = nodes[walk'.evaluated[i]].block_type
          /\ SameAsUncapped]_vars

\* A traced evaluation capped at one entry has evaluated three nodes.
C29_Witness ==
    /\ call.name = "evaluate_dirty_with_callback"
    /\ call.opts.trace
    /\ call.opts.max_trace_nodes = <<1>>
    /\ result.evaluated_count = 3
    /\ Len(result.trace[1]) = 1
    /\ dirty = {}

\* ------------------------------------------------------------------------
\* Freshness of the inputs a node is computed from
\* ------------------------------------------------------------------------

MaxFreshCalls == 6

\* A chain a -> b -> c of a number and two negations, and the fan-in a + b.
FreshSnapshots ==
    {Snapshot(<<num_node("a", 1), op_node("b", "negate"), op_node("c", "negate")>>,
              <<EdgeById("e4"), edge("e6", "b", "out", "c", "a")>>),
     Snapshot(AllNodes, <<EdgeById("e1"), EdgeById("e2")>>)}

FreshLoad(snapshot) ==
    /\ steps < MaxFreshCalls
    /\ SetGraph(load_snapshot(G, snapshot))
    /\ call' = Call("load_snapshot", 0)
    /\ result' = NoResult
    /\ walk' = NoWalk
    /\ steps' = steps + 1

FreshPatch(ops) ==
    /\ steps < MaxFreshCalls
    /\ SetGraph(apply_patch(G, ops))
    /\ call' = Call("apply_patch", 0)
    /\ result' = NoResult
    /\ walk' = NoWalk
    /\ steps' = steps + 1

FreshEvaluate(abort_at, seed) ==
    /\ steps < MaxFreshCalls
    /\ Commit(IncOutcome(evaluate_dirty_with_callback(G, DefaultOptions, abort_at, seed)))
    /\ call' = Call("evaluate_dirty", abort_at)
    /\ steps' = steps + 1

NextFresh ==
    \/ \E snapshot \in FreshSnapshots : FreshLoad(snapshot)
    \/ \E o \in UpdateOps : FreshPatch(<<o>>)
    \/ \E abort_at \in 0..MaxAbort : \E seed \in EvalSeeds(G) : FreshEvaluate(abort_at, seed)

SpecFresh == Init /\ [][NextFresh]_vars

\* No parent of n is dirty when the walk evaluates n as its k-th node.
NoDirtyParentAt(k, n) == Parents(G, n) \cap (DirtyAt(k, n) \ {n}) = {}

\* Every parent of n that is a node outside a cycle has a cached value then.
ParentsCachedAt(k, n) ==
    \A p \in Parents(G, n) \cap DOMAIN nodes :
       ~OnCycle(G, p) => p \in DOMAIN WalkPrefix(k - 1).values

\* C30 (as stated): inputs are fresh when read. At the moment evaluate_dirty
\* evaluates a node n, no direct parent of n is in dirty, and every parent
\* that is a node of the graph outside a cycle has a cached entry in
\* values.
C30_InputsFresh ==
    [][call'.name = "evaluate_dirty" =>
          \A k \in 1..Len(walk'.evaluated) :
             /\ NoDirtyParentAt(k, walk'.evaluated[k])
             /\ ParentsCachedAt(k, walk'.evaluated[k])]_vars

\* ------------------------------------------------------------------------
\* RemoveNode
\* ------------------------------------------------------------------------

\* No trace of n is left in the structure of g: n is a key of none of nodes,
\* values, in_adj and out_adj, is not dirty, no edge of g.edges touches it
\* and no adjacency entry of another id names it; topo_dirty is set.
RemovedFrom(g, n) ==
    /\ n \notin DOMAIN g.nodes
    /\ n \notin DOMAIN g.values
    /\ n \notin g.dirty
    /\ n \notin DOMAIN g.in_adj
    /\ n \notin DOMAIN g.out_adj
    /\ \A e \in DOMAIN g.edges : g.edges[e].source # n /\ g.edges[e].target # n
    /\ \A s \in DOMAIN g.out_adj :
          \A i \in 1..Len(g.out_adj[s]) : g.out_adj[s][i].target # n
    /\ \A t \in DOMAIN g.in_adj :
          \A i \in 1..Len(g.in_adj[t]) : g.in_adj[t][i].source # n
    /\ g.topo_dirty

\* C31: RemoveNode structural cleanup. In every reachable state, the patch
\* RemoveNode(n) leaves n out of nodes, values, dirty, in_adj and out_adj,
\* leaves no edge with source or target n in edges or in an adjacency row,
\* and sets topo_dirty; and as long as n is not a node, no call gives it a
\* cache entry or reports it in changed_values.
C31_RemoveNodeCleanup ==
    /\ [](\A n \in NodeIds :
             RemovedFrom(apply_patch(G, <<[op |-> "removeNode", nodeId |-> n]>>), n))
    /\ [][\A n \in NodeIds :
             (n \notin DOMAIN nodes /\ n \notin DOMAIN values /\ n \notin DOMAIN nodes')
             => (n \notin DOMAIN values' /\ n \notin DOMAIN result'.values)]_vars

\* An evaluate_dirty call on a graph from which a patch removed a after c had
\* been computed as a + b: a and its edge e1 are gone, b, c and e2 remain.
C31_Witness ==
    /\ call.name = "evaluate_dirty"
    /\ DOMAIN nodes = {"b", "c"}
    /\ "c" \in DOMAIN values
    /\ values["c"] = Scalar(F(2))
    /\ "manualValues" \notin DOMAIN nodes["c"].data
    /\ DOMAIN edges = {"e2"}
    /\ ~topo_dirty

\* ------------------------------------------------------------------------
\* Cycles in the stateless evaluator
\* ------------------------------------------------------------------------

\* The nodes and edges of a snapshot as a graph record.
SnapshotGraph(snapshot) == load_snapshot(NewGraph, snapshot)

\* n is not on a cycle of g and some ancestor of n is.
DownstreamOfCycle(g, n) ==
    /\ ~OnCycle(g, n)
    /\ \E m \in DOMAIN g.nodes : OnCycle(g, m) /\ n \in Descendants(g, m)

\* C32: nodes downstream of a cycle. In the result of run, every node that
\* is not on a cycle but has a cycle member among its ancestors has an entry
\* in values, and that entry is a Value::Error.
C32_DownstreamOfCycleEvaluated ==
    (call.name = "run" /\ result.kind = "EvalResult") =>
       \A n \in SnapshotNodeIds(call.payload.snapshot) :
          DownstreamOfCycle(SnapshotGraph(call.payload.snapshot), n)
          => (n \in DOMAIN result.values /\ result.values[n].kind = "error")

\* C33: only cycles are reported as cycles. Every node of a snapshot to
\* which run gives no value, or for which it reports CYCLE_DETECTED, lies on
\* a directed cycle of the snapshot; and in every state of the persistent
\* graph, every node that rebuild_topo leaves out of the order, under every
\* seeding order, lies on a directed cycle of the graph.
C33_OnlyCyclesReported ==
    /\ (call.name = "run" /\ result.kind = "EvalResult") =>
          \A n \in SnapshotNodeIds(call.payload.snapshot) :
             (\/ n \notin DOMAIN result.values
              \/ DiagCount(result.diagnostics, "CYCLE_DETECTED", n) > 0)
             => OnCycle(SnapshotGraph(call.payload.snapshot), n)
    /\ \A seed \in SeedOrders(InDegree(G)) :
          \A n \in DOMAIN nodes :
             (\/ n \notin Range(rebuild_topo(G, seed).topo_order)
              \/ DiagCount(rebuild_topo(G, seed).diagnostics, "CYCLE_DETECTED", n) > 0)
             => OnCycle(G, n)

\* ------------------------------------------------------------------------
\* Several edges into one port
\* ------------------------------------------------------------------------

MaxDupCalls == 3

\* a = 1 and b = 2 are the sources, c negates its port a.  f1 and f2 feed
\* port a of c from a and b; f3 makes the missing id x a target, so that f4,
\* from x into port a of c, has a source without a value.
DupNodes == <<num_node("a", 1), num_node("b", 2), op_node("c", "negate")>>

DupEdges ==
    {edge("f1", "a", "out", "c", "a"),
     edge("f2", "b", "out", "c", "a"),
     edge("f3", "a", "out", "x", "a"),
     edge("f4", "x", "out", "c", "a")}

DupEdgeById(id) == CHOOSE e \in DupEdges : e.id = id

\* Every ordering of every subset of f1, f2, f4, alone or after f3.
DupOrders ==
    UNION {Perms(S) : S \in SUBSET {DupEdgeById("f1"), DupEdgeById("f2"), DupEdgeById("f4")}}

DupPayloads ==
    {SnapshotPayload(Snapshot(DupNodes, es)) : es \in DupOrders}
    \cup {SnapshotPayload(Snapshot(DupNodes, <<DupEdgeById("f3")>> \o es)) : es \in DupOrders}

DupPatchPayloads ==
    {PatchPayload(<<[op |-> "addEdge", edge |-> e]>>) : e \in DupEdges}
    \cup {PatchPayload(<<[op |-> "removeEdge", edgeId |-> e.id]>>) : e \in DupEdges}

\* The edges added and not removed since, in the order they were added.
AddedAfter(added, op) ==
    IF op.op = "addEdge" THEN Append(added, op.edge)
    ELSE LET Other(e) == e.id # op.edgeId IN SelectSeq(added, Other)

DupLoad(payload, seed) ==
    /\ steps < MaxDupCalls
    /\ Commit(run_load_snapshot(G, payload, DefaultOptions, 0, seed))
    /\ call' = [name |-> "run_load_snapshot", abort_at |-> 0, payload |-> payload,
                added |-> payload.snapshot.edges]
    /\ steps' = steps + 1

DupPatch(payload, seed) ==
    /\ steps < MaxDupCalls
    /\ call.name # "new"
    /\ FreshEdgeIds(G, payload.ops)
    /\ Commit(run_patch(G, payload, DefaultOptions, 0, seed))
    /\ call' = [name |-> "run_patch", abort_at |-> 0, payload |-> payload,
                added |-> AddedAfter(call.added, payload.ops[1])]
    /\ steps' = steps + 1

NextDup ==
    \/ \E payload \in DupPayloads : \E seed \in LoadSeeds(G, payload) : DupLoad(payload, seed)
    \/ \E payload \in DupPatchPayloads : \E seed \in PatchSeeds(G, payload) :
          DupPatch(payload, seed)

SpecDup == Init /\ [][NextDup]_vars

\* The positions in added of the edges into (n, p) whose source has a value.
Feeding(added, n, p, vals) ==
    {i \in 1..Len(added) :
        added[i].target = n /\ added[i].target_handle = p /\ added[i].source \in DOMAIN vals}

\* Last writer wins: port p of n resolves to the value of the source of the
\* last such edge, and to nothing when there is none.
LastWriter(added, n, p, vals) ==
    IF Feeding(added, n, p, vals) = {} THEN EmptyMap
    ELSE LET last == CHOOSE i \in Feeding(added, n, p, vals) :
                        \A j \in Feeding(added, n, p, vals) : j <= i
         IN  Put(EmptyMap, p, vals[added[last].source])

\* C34: duplicate edges into one port are last-writer-wins. After a load or
\* a patch with its evaluation, a node c that is not left dirty holds the
\* negation of the value of the source of the edge into its port a that was
\* added last (snapshot order, then patch order, removed edges left out)
\* among the sources that have a value; and whenever run, given the same
\* nodes and the edges in that order, gives c a value, it is that value.
C34_LastWriterWins ==
    call.name \in {"run_load_snapshot", "run_patch"} =>
       /\ "c" \notin dirty =>
             /\ "c" \in DOMAIN values
             /\ values["c"] = evaluate_node("negate",
                                            LastWriter(call.added, "c", "a", values),
                                            EmptyMap)
       /\ \A seed \in EvalSeedOrders(Snapshot(DupNodes, call.added)) :
             "c" \in DOMAIN evaluate(Snapshot(DupNodes, call.added), seed).values
             => /\ "c" \in DOMAIN values
                /\ "c" \notin dirty
                /\ evaluate(Snapshot(DupNodes, call.added), seed).values["c"] = values["c"]

\* The patch removed the edge added last into port a of c while two edges
\* from valued sources and the edge from x remain: c now negates a.
C34_Witness ==
    /\ call.name = "run_patch"
    /\ call.payload.ops[1].op = "removeEdge"
    /\ Cardinality(Feeding(call.added, "c", "a", values)) = 1
    /\ Cardinality({i \in 1..Len(call.added) : call.added[i].target = "c"}) = 2
    /\ call.added[Len(call.added)].source = "x"
    /\ "c" \in DOMAIN result.values
    /\ values["c"] = Scalar(FNeg(F(1)))

\* ------------------------------------------------------------------------
\* What an evaluation touches
\* ------------------------------------------------------------------------

\* The evaluate_dirty call that follows the patch <<u>> on g.
EvaluatedAfter(g, u) ==
    evaluate_dirty_with_callback(apply_patch(g, <<u>>), DefaultOptions, 0, <<>>)

\* Every node the call ev evaluated got a value other than the one cached
\* in g.
EveryValueChanged(g, ev) ==
    \A m \in Range(ev.evaluated) :
        m \notin DOMAIN g.values \/ ~values_equal(g.values[m], ev.graph.values[m])

\* n and the nodes downstream of n.
SelfAndDescendants(g, n) == ({n} \cup Descendants(g, n)) \cap DOMAIN g.nodes

\* An evaluate_dirty call leaves alone every node that is not dirty when it
\* is entered.
CleanNodesUntouched ==
    call'.name = "evaluate_dirty" =>
       \A n \in (DOMAIN nodes) \ dirty :
          /\ n \notin Range(walk'.evaluated)
          /\ n \notin DOMAIN result'.values
          /\ CacheEntryUntouched(n)

\* The engine has just completed an evaluation.
EvaluationComplete == call.name = "evaluate_dirty" /\ ~result.partial

NoCycle(g) ==
    \A e \in DOMAIN g.edges : ~OnCycle(g, g.edges[e].source)

\* The evaluate_dirty call issued right now, with nothing in between.
EvaluatedAgain == evaluate_dirty_with_callback(G, DefaultOptions, 0, <<>>)

\* C36: evaluation is idempotent. When evaluate_dirty has returned
\* partial = false on a graph without cycles, dirty is empty, and an
\* evaluate_dirty issued immediately afterwards evaluates no node, returns
\* empty changed_values and leaves values as they are.
C36_EvaluationIdempotent ==
    (EvaluationComplete /\ NoCycle(G)) =>
       /\ dirty = {}
       /\ EvaluatedAgain.evaluated = <<>>
       /\ EvaluatedAgain.result.changed_values = EmptyMap
       /\ EvaluatedAgain.graph.values = values

\* ------------------------------------------------------------------------
\* Nodes that reference a dataset
\* ------------------------------------------------------------------------

MaxRefCalls == 4

\* v reads dataset ds1, with or without an embedded vectorData to fall back
\* on; c negates v.
RefSnapshots ==
    {Snapshot(<<data_node("v", "vectorInput", data), op_node("c", "negate")>>,
              <<edge("g1", "v", "out", "c", "a")>>) :
        data \in {[datasetRef |-> JsonStr("ds1")],
                  [datasetRef |-> JsonStr("ds1"),
                   vectorData |-> JsonArray(<<JsonNumber(5)>>)]}}

NextRef ==
    \/ \E id \in DatasetIds : \E data \in DatasetUniverse :
          steps < MaxRefCalls /\ RegisterDataset(id, data)
    \/ \E id \in DatasetIds : steps < MaxRefCalls /\ ReleaseDataset(id)
    \/ \E snapshot \in RefSnapshots : steps < MaxRefCalls /\ LoadSnapshot(snapshot)
    \/ \E abort_at \in 0..MaxAbort : \E seed \in EvalSeeds(G) :
          steps < MaxRefCalls /\ EvaluateDirty(abort_at, seed)

SpecRef == Init /\ [][NextRef]_vars

\* n is a vectorInput node whose data names a dataset.
ReferencesDataset(g, n) ==
    /\ g.nodes[n].block_type = "vectorInput"
    /\ "datasetRef" \in DOMAIN g.nodes[n].data
    /\ as_str(g.nodes[n].data["datasetRef"]) # <<>>

\* C37: dataset-backed nodes track the registry. In every reachable state a
\* vectorInput node with a datasetRef that is not dirty has a cached value,
\* and it is the value the node evaluates to against the registry as it is
\* now.
C37_DatasetNodesTrackRegistry ==
    \A n \in (DOMAIN nodes) \ dirty :
       ReferencesDataset(G, n) =>
          /\ n \in DOMAIN values
          /\ values[n] = evaluate_node_with_datasets("vectorInput", EmptyMap,
                                                     nodes[n].data, datasets)

\* ------------------------------------------------------------------------
\* The dirty set and the node map
\* ------------------------------------------------------------------------

\* C38: dirty ids are node ids. In every reachable state every member of
\* dirty is a key of nodes, and so the dirty_count handed to the progress
\* callback never exceeds total_count.
C38_DirtyIdsAreNodeIds ==
    /\ dirty \subseteq DOMAIN nodes
    /\ \A i \in 1..Len(walk.progress) :
          walk.progress[i].dirty_count <= Cardinality(DOMAIN nodes)

\* ------------------------------------------------------------------------
\* Adjacency and the edge map when an edge id is used again
\* ------------------------------------------------------------------------

MaxReuseCalls == 4

\* r1 and r2 carry the same edge id with different sources.
ReuseEdges ==
    [r1 |-> edge("e1", "a", "out", "c", "a"),
     r2 |-> edge("e1", "b", "out", "c", "a"),
     r3 |-> edge("e2", "b", "out", "c", "b")]

ReuseSnapshots ==
    {Snapshot(<<num_node("a", 1), num_node("b", 2), op_node("c", "add")>>, es) :
        es \in {<<>>, <<ReuseEdges.r1>>, <<ReuseEdges.r1, ReuseEdges.r3>>,
                <<ReuseEdges.r1, ReuseEdges.r2>>}}

ReuseOps ==
    {[op |-> "addEdge", edge |-> ReuseEdges[r]] : r \in DOMAIN ReuseEdges}
    \cup {[op |-> "removeEdge", edgeId |-> id] : id \in {"e1", "e2"}}

\* load_snapshot and apply_patch as the engine takes them: nothing checks
\* that an edge id is new.
ReuseLoad(snapshot) ==
    /\ steps < MaxReuseCalls
    /\ SetGraph(load_snapshot(G, snapshot))
    /\ call' = Call("load_snapshot", 0)
    /\ result' = NoResult
    /\ walk' = NoWalk
    /\ steps' = steps + 1

ReusePatch(ops) ==
    /\ steps < MaxReuseCalls
    /\ SetGraph(apply_patch(G, ops))
    /\ call' = Call("apply_patch", 0)
    /\ result' = NoResult
    /\ walk' = NoWalk
    /\ steps' = steps + 1

NextReuse ==
    \/ \E snapshot \in ReuseSnapshots : ReuseLoad(snapshot)
    \/ \E o \in ReuseOps : ReusePatch(<<o>>)

SpecReuse == Init /\ [][NextReuse]_vars

\* The number of entries of the row adj[k] that carry edge id e.
EntriesFor(adj, k, e) ==
    IF k \in DOMAIN adj
    THEN Cardinality({i \in 1..Len(adj[k]) : adj[k][i].id = e})
    ELSE 0

\* Each edge of edges has exactly one entry in out_adj[source] and exactly
\* one in in_adj[target].
EdgesHaveEntries(g) ==
    \A e \in DOMAIN g.edges :
       /\ EntriesFor(g.out_adj, g.edges[e].source, e) = 1
       /\ EntriesFor(g.in_adj, g.edges[e].target, e) = 1

\* Every adjacency entry is the entry of an edge that edges holds now.
EntriesHaveEdges(g) ==
    /\ \A k \in DOMAIN g.out_adj : \A i \in 1..Len(g.out_adj[k]) :
          LET x == g.out_adj[k][i]
          IN  /\ x.id \in DOMAIN g.edges
              /\ g.edges[x.id].source = k
              /\ g.edges[x.id].target = x.target
              /\ g.edges[x.id].target_handle = x.target_handle
    /\ \A k \in DOMAIN g.in_adj : \A i \in 1..Len(g.in_adj[k]) :
          LET x == g.in_adj[k][i]
          IN  /\ x.id \in DOMAIN g.edges
              /\ g.edges[x.id].target = k
              /\ g.edges[x.id].source = x.source
              /\ g.edges[x.id].source_handle = x.source_handle
              /\ g.edges[x.id].target_handle = x.target_handle

\* The remaining in-degrees when Kahn's loop of rebuild_topo ends; a counter
\* decremented at 0 shows as a negative number.
KahnRemaining(g, seed) ==
    KahnLoop([queue |-> seed, order |-> <<>>, remaining |-> InDegree(g)],
             g.out_adj).remaining

NoDecrementBelowZero(g) ==
    \A seed \in SeedOrders(InDegree(g)) :
       \A id \in DOMAIN InDegree(g) : KahnRemaining(g, seed)[id] >= 0

\* C39: adjacency mirrors the edge map. In every state reached by
\* load_snapshot and apply_patch, also with snapshots and AddEdge ops that
\* use an edge id that is already present, each edge has exactly one entry
\* in out_adj[source] and one in in_adj[target], every adjacency entry
\* belongs to an edge of edges, and rebuild_topo run on that state never
\* takes an in-degree counter below zero.
C39_AdjacencyMirrorsEdges ==
    /\ EdgesHaveEntries(G)
    /\ EntriesHaveEdges(G)
    /\ NoDecrementBelowZero(G)

\* ------------------------------------------------------------------------
\* Termination of the incremental evaluation
\* ------------------------------------------------------------------------

MaxTermCalls == 4

TermEdges ==
    [t1 |-> edge("t1", "s", "out", "b", "a"),
     t2 |-> edge("t2", "b", "out", "c", "a"),
     t3 |-> edge("t3", "c", "out", "a", "a"),
     t4 |-> edge("t4", "a", "out", "c", "b"),
     t5 |-> edge("t5", "s", "out", "a", "a"),
     t6 |-> edge("t6", "b", "out", "b", "a")]

\* s feeds b; behind b: a cycle c <-> a of nodes, the same cycle of ids that
\* are not nodes, a diamond s -> {b, a} -> c, and a self-loop on b.
TermSnapshots ==
    {Snapshot(<<num_node("s", 1), op_node("b", "negate"), op_node("c", "add"),
                op_node("a", "negate")>>,
              <<TermEdges.t1, TermEdges.t2, TermEdges.t3, TermEdges.t4>>),
     Snapshot(<<num_node("s", 1), op_node("b", "negate")>>,
              <<TermEdges.t1, TermEdges.t2, TermEdges.t3, TermEdges.t4>>),
     Snapshot(<<num_node("s", 1), op_node("b", "negate"), op_node("c", "add"),
                op_node("a", "negate")>>,
              <<TermEdges.t1, TermEdges.t5, TermEdges.t2, TermEdges.t4>>),
     Snapshot(<<num_node("s", 1), op_node("b", "negate")>>,
              <<TermEdges.t1, TermEdges.t6>>)}

TermOps ==
    {[op |-> "updateNodeData", nodeId |-> "s", data |-> [value |-> v]] : v \in {1, 2}}

\* The test of prune_downstream on a target: no in-edge of t comes from a
\* dirty id (true when t has no in_adj row).
AllParentsClean(dirty_ids, t, in_rows) ==
    IF t \in DOMAIN in_rows
    THEN \A i \in 1..Len(in_rows[t]) : in_rows[t][i].source \notin dirty_ids
    ELSE TRUE

\* prune_downstream together with its call stack.  open holds the ids whose
\* call has not returned; visited collects the ids the recursion is called
\* on.  The dirty set only shrinks and the adjacency does not change, so a
\* call on an id of open repeats the calls that led to it: the recursion
\* never returns (overflow).
RECURSIVE PruneCalls(_, _, _, _, _)
PruneCalls(st, targets, out_rows, in_rows, open) ==
    IF targets = <<>> \/ st.overflow THEN st
    ELSE IF ~AllParentsClean(st.dirty, Head(targets), in_rows)
    THEN PruneCalls(st, Tail(targets), out_rows, in_rows, open)
    ELSE IF Head(targets) \in open
    THEN [st EXCEPT !.overflow = TRUE, !.visited = @ \cup {Head(targets)}]
    ELSE PruneCalls(PruneCalls([st EXCEPT !.dirty = @ \ {Head(targets)},
                                          !.visited = @ \cup {Head(targets)}],
                               OutTargets(out_rows, Head(targets)), out_rows, in_rows,
                               open \cup {Head(targets)}),
                    Tail(targets), out_rows, in_rows, open)

\* The calls of prune_downstream that the iteration on node_id makes: none
\* when the value changed.
PruneOf(g, w, node_id, new_value) ==
    IF node_id \in DOMAIN w.values /\ values_equal(w.values[node_id], new_value)
    THEN PruneCalls([dirty |-> w.dirty \ {node_id}, visited |-> {}, overflow |-> FALSE],
                    OutTargets(g.out_adj, node_id), g.out_adj, g.in_adj, {node_id})
    ELSE [dirty |-> w.dirty \ {node_id}, visited |-> {}, overflow |-> FALSE]

\* The walk of evaluate_dirty_with_callback, followed for whether it returns
\* and for the ids its pruning is called on.
RECURSIVE WalkCalls(_, _, _, _, _)
RECURSIVE StepCalls(_, _, _, _, _, _)
StepCalls(g, w, visited, order, abort_at, p) ==
    IF p.overflow
    THEN [returns |-> FALSE, visited |-> visited \cup p.visited]
    ELSE WalkCalls(g, EvalStep(g, w, Head(order), abort_at), visited \cup p.visited,
                   Tail(order), abort_at)

WalkCalls(g, w, visited, order, abort_at) ==
    IF order = <<>> \/ w.partial THEN [returns |-> TRUE, visited |-> visited]
    ELSE IF Head(order) \notin w.dirty
    THEN WalkCalls(g, w, visited, Tail(order), abort_at)
    ELSE IF Head(order) \notin DOMAIN g.nodes
    THEN WalkCalls(g, [w EXCEPT !.dirty = @ \ {Head(order)}], visited, Tail(order), abort_at)
    ELSE StepCalls(g, w, visited, order, abort_at,
                   PruneOf(g, w, Head(order), NodeResult(g, w, Head(order))))

CallsOver(t, abort_at) ==
    WalkCalls(t.graph, StartWalk(t.graph, DefaultOptions, t.diagnostics), {},
              t.graph.topo_order, abort_at)

EvaluationCalls(g, abort_at, seed) == CallsOver(WithTopo(g, EnsureTopo(g, seed)), abort_at)

TermLoad(snapshot) ==
    /\ steps < MaxTermCalls
    /\ SetGraph(load_snapshot(G, snapshot))
    /\ call' = Call("load_snapshot", 0)
    /\ result' = NoResult
    /\ walk' = NoWalk
    /\ steps' = steps + 1

TermPatch(ops) ==
    /\ steps < MaxTermCalls
    /\ SetGraph(apply_patch(G, ops))
    /\ call' = Call("apply_patch", 0)
    /\ result' = NoResult
    /\ walk' = NoWalk
    /\ steps' = steps + 1

\* evaluate_dirty: a call whose pruning never returns has no state after it.
TermEvaluate(abort_at, seed) ==
    /\ steps < MaxTermCalls
    /\ EvaluationCalls(G, abort_at, seed).returns
    /\ Commit(IncOutcome(evaluate_dirty_with_callback(G, DefaultOptions, abort_at, seed)))
    /\ call' = Call("evaluate_dirty", abort_at)
    /\ steps' = steps + 1

NextTerm ==
    \/ \E snapshot \in TermSnapshots : TermLoad(snapshot)
    \/ \E o \in TermOps : TermPatch(<<o>>)
    \/ \E abort_at \in 0..MaxAbort : \E seed \in EvalSeeds(G) : TermEvaluate(abort_at, seed)

SpecTerm == Init /\ [][NextTerm]_vars

\* The ids of g: the nodes and the ends of the edges.
IdsOf(g) ==
    DOMAIN g.nodes \cup {g.edges[e].source : e \in DOMAIN g.edges}
                   \cup {g.edges[e].target : e \in DOMAIN g.edges}

\* The walk c returns and its pruning was called on no id of a cycle.
ReturnsOffCycles(g, c) ==
    /\ c.returns
    /\ \A n \in c.visited : ~OnCycle(g, n)

\* C40: termination on every graph. In every reachable state, cycles,
\* self-loops and diamonds included, mark_dirty from any id ends with the id
\* marked, rebuild_topo ends with an order without repetition, and an
\* evaluate_dirty whose callback always continues returns, with
\* partial = false, without having called the pruning recursion on a member
\* of a cycle.
C40_EvaluationTerminates ==
    /\ \A n \in IdsOf(G) : n \in mark_dirty(G, n).dirty
    /\ \A seed \in SeedOrders(InDegree(G)) :
          Len(rebuild_topo(G, seed).topo_order) <= Cardinality(IdsOf(G))
    /\ \A seed \in EvalSeeds(G) : ReturnsOffCycles(G, EvaluationCalls(G, 0, seed))
    /\ (call.name = "evaluate_dirty" /\ call.abort_at = 0) => ~result.partial

====
